---- MODULE Spec2Model ----
(***************************************************************************)
(* A model of the concurrent data plane of the CAN/Ethernet gateway        *)
(* simulation: the two message buses (src/src/can_bus.py,                  *)
(* src/src/ethernet_bus.py), the intrusion detection engine and the        *)
(* authentication codec (src/src/security.py).                             *)
(*                                                                         *)
(* Every `with self.lock:` block of the source is modelled with an         *)
(* explicit lock variable, and every `x += 1` inside it as a read step and *)
(* a write step, so that mutual exclusion is something the model checks    *)
(* rather than assumes.  queue.Queue.put/get are atomic (the queue has its *)
(* own mutex) and are single steps.                                        *)
(***************************************************************************)
EXTENDS Integers, Sequences, FiniteSets, TLC

(***************************************************************************)
(* Bounds of the model.                                                    *)
(***************************************************************************)
\* M: the number of send calls each producer thread issues when one thread
\* receives.
MsgsPerProducer == 2
\* M when two threads receive concurrently.
StressMsgs == 1
\* The number of check_can / check_eth calls made on the engine.
MaxChecks == 3
\* EnhancedIDS(window_ms, rate_threshold): the engine's configuration.
WindowMs == 2
RateThreshold == 2
\* the longest payload handed to attach_auth
MaxPayloadLen == 2
\* the translations made on one translator
MaxTranslations == 2
\* the messages that enter the secure pipeline, and the attack frames
MaxPipeline == 2
\* the frames the attackers send meanwhile
MaxAttacks == 1
\* gen_id calls of the minting workload
MaxMints == 3
\* the producer's messages while recv_batch is timed
BatchMsgs == 1
\* the last tick of the clock
MaxClock == 4
\* the longest timeout passed to recv_batch, in ticks
MaxTimeout == 3
\* the polling slice of recv_batch (0.01 s), in ticks
PollSlice == 2

(***************************************************************************)
(* Constants of the program.                                               *)
(***************************************************************************)
\* frame.can_id > 0x700
InjectionThreshold == 1792
\* the length of an authentication tag: digest()[:8], payload[:-8], payload[-8:]
TagLen == 8
\* the largest payload of a CAN frame: min(len(pkt.payload), 8), payload[:8]
CanMaxLen == 8
\* the arbitration id of a packet whose source is not in eth_to_can_map
FallbackCanId == 512

(***************************************************************************)
(* Threads of the bus workload.                                            *)
(***************************************************************************)
Producers == {"p1", "p2"}
Consumers == {"c1", "c2"}
BusThreads == Producers \cup Consumers

\* The two bus classes; their code is the same line for line.
Buses == {"can", "eth"}

NoThread == "none"
NoMsg == <<>>

\* The consumer thread of the workload with a single receiver.
SingleConsumer == {"c1"}

VARIABLES
    \* ---- the bus objects (HighPerformanceCANBus / HighPerformanceEthernetBus)
    q,                  \* self.q, per bus: the FIFO queue
    messages_sent,      \* self.messages_sent / self.packets_sent
    messages_received,  \* self.messages_received / self.packets_received
    lock,               \* self.lock: the thread holding it, or NoThread
    \* ---- the bus workload
    target,             \* the bus the workload's threads operate on
    quota,              \* M: the number of send calls each producer issues
    pc,                 \* each thread's position in the method it is running
    tmp,                \* the value a thread read for its pending `+= 1`
    nsent,              \* per producer: the number of send calls it completed
    frames,             \* recv_batch's local list `frames`; recv's result
    max_frames,         \* recv_batch's argument max_frames
    lastOp,             \* per consumer: the method it called last
    rbExit,             \* per consumer: how its last recv_batch left the loop
    stats,              \* per consumer: the dict its get_stats call returned
    \* ---- history
    delivered,          \* per message: how many times a receive returned it
    excl,               \* per consumer: no other send or receive was in
                        \* progress or started since its last call began, and
                        \* nothing had been received before it
    gsCtx               \* per consumer: the completed / running send calls
                        \* when its get_stats call took the lock


busVars == <<q, messages_sent, messages_received, lock, target, quota, pc, tmp, nsent,
             frames, max_frames, lastOp, rbExit, stats, delivered, excl, gsCtx>>

VARIABLES
    \* ---- the engine (EnhancedIDS)
    seen_hashes,             \* self.seen_hashes
    timestamps,              \* self.timestamps: routing key -> deque
    replay_detected,         \* the per-type detection counters
    dos_detected,
    injection_detected,
    spoofing_detected,
    total_checked,           \* self.total_checked
    total_detected_packets,  \* self.total_detected_packets
    ids_lock,                \* self.lock: the thread holding it, or NoThread
    \* ---- the threads calling the engine
    pool,                    \* the messages the callers submit in this run
    ipc,                     \* each caller's position in check_can / check_eth
    arg,                     \* the frame or packet it passed
    local,                   \* its locals replay and packet_alerted while
                             \* it is inside the lock
    verdict,                 \* the dict its last call returned
    \* ---- history
    log,                     \* the completed checks, in the order they
                             \* returned: message and verdict
    concur,                  \* per caller: the callers whose call overlapped
                             \* with its current (or last) call
    fresh,                   \* per caller: its message's fingerprint was not
                             \* in seen_hashes when it made the call
    istats                   \* the dict the last get_stats call returned

idsVars == <<seen_hashes, timestamps, replay_detected, dos_detected,
             injection_detected, spoofing_detected, total_checked,
             total_detected_packets, ids_lock, pool, ipc, arg, local, verdict,
             log, concur, fresh, istats>>

VARIABLES
    mac,                     \* the HMAC values computed so far: payload -> tag
    apc,                     \* the codec's caller: "idle", "wire", "done"
    authArg,                 \* the argument of attach_auth
    wire,                    \* the bytes handed to strip_and_verify
    attached,                \* history: wire is attach_auth(payload)
    tampered,                \* history: the byte of attach_auth(payload)
                             \* that was changed, 0 when none was
    outcome                  \* what strip_and_verify returned

authVars == <<mac, apc, authArg, wire, attached, tampered, outcome>>

VARIABLES
    \* ---- the translator (ProtocolTranslator) and the id counter
    translation_count,       \* self.translation_count
    latencies,               \* self.latencies
    gw_lock,                 \* self.lock: the thread holding it, or NoThread
    msg_counter,             \* utils.msg_counter.value
    \* ---- the threads calling the translator
    gwpool,                  \* the calls the threads make in this run
    gpc,                     \* each caller's position in its call
    gin,                     \* the message object it passed
    gdst,                    \* the dst it passed
    gout,                    \* the message its call built and returns
    gtmp,                    \* the counter value it read for `+= 1`
    gstats,                  \* what its last get_stats returned
    \* ---- history
    gcalled,                 \* the message it passed, as it was at the call
    gminted,                 \* its call minted an id
    completed,               \* the translations that have returned
    overlapped               \* two translations have run at the same time

gwVars == <<translation_count, latencies, gw_lock, msg_counter, gwpool, gpc,
            gin, gdst, gout, gtmp, gstats, gcalled, gminted, completed,
            overlapped>>

VARIABLES
    \* ---- the main thread of run_secure (scenarios.py 402-432)
    spc,                     \* its position in the loop body
    sauth,                   \* auth_frame
    spkt,                    \* eth_pkt
    sdone,                   \* the frames of can_frames taken so far
    attack_frames,           \* attack_frames, the frames not yet checked
    \* ---- history
    submitted,               \* the frames passed to check_can
    produced,                \* the frames eth_to_can returned
    fate,                    \* per message id: the outcomes recorded for it
    taken,                   \* the ids of the frames recv_batch returned
    flagged                  \* the ids of the messages for which a check
                             \* returned alerts = True

secVars == <<spc, sauth, spkt, sdone, attack_frames, submitted, produced, fate,
             taken, flagged>>

\* The variables of the other components that the pipeline does not write.
busRest == <<lock, target, quota, pc, tmp, nsent, frames,
             max_frames, lastOp, rbExit, stats, delivered, excl, gsCtx>>
idsRest == <<timestamps, ids_lock, pool, ipc, arg, local, verdict, log, concur,
             fresh, istats>>
authRest == <<apc, authArg, wire, attached, tampered, outcome>>
gwRest == <<gw_lock, gwpool, gpc, gin, gdst, gout, gtmp, gstats, gcalled,
            gminted, completed, overlapped>>

VARIABLES
    \* ---- time, for recv_batch
    clock,                   \* time.time(), in ticks
    deadline,                \* per consumer: deadline of its recv_batch
    wait_end,                \* per consumer: when its q.get times out
    rbBase                   \* history: messages_received at its call

timeVars == <<clock, deadline, wait_end, rbBase>>

VARIABLES
    \* ---- send_batch
    sbLeft,                  \* per producer: frames of its batch not yet put
    sbSize                   \* history: len(frames) of its last batch

batchVars == <<sbLeft, sbSize>>

VARIABLES
    \* ---- the order of the send calls
    before                   \* history: per message, the messages whose send
                             \* had completed when its send was called

fifoVars == <<before>>

VARIABLES
    \* ---- gen_id and the counter's lock
    ctr_lock,                \* msg_counter.lock: the thread holding it, or
                             \* NoThread
    mpc,                     \* each caller's position in gen_id
    mprefix,                 \* the prefix it passed
    mtmp,                    \* the counter value it read for `+= 1`
    minted                   \* history: the ids the calls returned, in the
                             \* order they returned

mintVars == <<ctr_lock, mpc, mprefix, mtmp, minted>>

vars == <<busVars, idsVars, authVars, gwVars, secVars, timeVars, batchVars, fifoVars, mintVars>>

\* What an action of the bus leaves alone.
otherThanBus == <<idsVars, authVars, gwVars, secVars, timeVars, batchVars, fifoVars, mintVars>>

\* What recv_batch, which reads the clock, leaves alone.
otherThanBusAndTime == <<idsVars, authVars, gwVars, secVars, batchVars, fifoVars, mintVars>>

\* What send_batch leaves alone.
otherThanBusAndBatch == <<idsVars, authVars, gwVars, secVars, timeVars, fifoVars, mintVars>>

\* What a send call whose place in the order of the calls is recorded leaves
\* alone.
otherThanBusAndOrder ==
    <<idsVars, authVars, gwVars, secVars, timeVars, batchVars, mintVars>>

\* What an action of the engine leaves alone.
otherThanIds == <<busVars, authVars, gwVars, secVars, timeVars, batchVars, fifoVars, mintVars>>

\* What the codec leaves alone.
otherThanAuth == <<busVars, idsVars, gwVars, secVars, timeVars, batchVars, fifoVars, mintVars>>

\* What gen_id, which writes the counter, leaves alone.
otherThanMint ==
    <<busVars, idsVars, authVars, secVars, timeVars, batchVars, fifoVars>>

\* What the translator leaves alone.
otherThanGw == <<busVars, idsVars, authVars, secVars, timeVars, batchVars, fifoVars, mintVars>>

(***************************************************************************)
(* The messages of the workload: producer p's i-th message.                *)
(***************************************************************************)
Msgs == Producers \X (1..quota)

\* K * M: the number of messages the producers send altogether.
TotalMsgs == Cardinality(Producers) * quota

\* The max_frames arguments the consumers pass to recv_batch.
BatchSizes == {1, TotalMsgs}

\* The messages whose send call has completed.
SentMsgs == {m \in Msgs : m[2] <= nsent[m[1]]}

RECURSIVE SumOver(_, _)
SumOver(f, S) == IF S = {} THEN 0
                 ELSE LET x == CHOOSE y \in S : TRUE
                      IN f[x] + SumOver(f, S \ {x})

\* N: the number of completed send calls.
CompletedSends == SumOver(nsent, Producers)

SendRunning == \E p \in Producers : pc[p] # "idle"

\* No producer or consumer other than t is inside a bus method.
Quiescent(t) == \A u \in (Producers \cup Consumers) \ {t} : pc[u] = "idle"

(***************************************************************************)
(* threading.Lock                                                          *)
(***************************************************************************)
\* (mutant: the block is entered without waiting for the lock)
CanAcquire_NoLock(b) == TRUE

\* `with self.lock:` can enter when no thread holds the lock.
CanAcquire(b) == lock[b] = NoThread

Acquire(b, t) == CanAcquire(b) /\ lock' = [lock EXCEPT ![b] = t]

Release(b) == lock' = [lock EXCEPT ![b] = NoThread]

(***************************************************************************)
(* queue.Queue: put appends at the tail, get removes the head.             *)
(***************************************************************************)
\* (mutant: put inserts at the head)
QueuePut_Front(s, m) == <<m>> \o s

QueuePut(s, m) == Append(s, m)

\* (mutant: get reads the head and leaves it in the queue)
QueueAfterGet_Peek(s) == s

\* The queue once get has returned its head.
QueueAfterGet(s) == Tail(s)

\* A call by t that is a send or a receive ends the exclusiveness of every
\* other consumer's call.
Disturb(t) == [c \in Consumers |-> IF c = t THEN excl[c] ELSE FALSE]

NoStats == [sent |-> -1, received |-> -1, queued |-> -1]
NoCtx == [done |-> 0, busy |-> TRUE]

\* A consumer thread calls method `op`: the results of its previous call are
\* gone.
Begin(c, op, n) ==
    /\ frames' = [frames EXCEPT ![c] = <<>>]
    /\ max_frames' = [max_frames EXCEPT ![c] = n]
    /\ lastOp' = [lastOp EXCEPT ![c] = op]
    /\ rbExit' = [rbExit EXCEPT ![c] = "none"]
    /\ stats' = [stats EXCEPT ![c] = NoStats]
    /\ gsCtx' = [gsCtx EXCEPT ![c] = NoCtx]

(***************************************************************************)
(* send(frame): can_bus.py 28-32, ethernet_bus.py 24-28                    *)
(***************************************************************************)
SendCallBus(p) ==
    /\ pc[p] = "idle"
    /\ nsent[p] < quota
    /\ pc' = [pc EXCEPT ![p] = "send_acq"]
    /\ excl' = Disturb(p)
    /\ UNCHANGED <<q, messages_sent, messages_received, lock, target, quota, tmp, nsent,
                   frames, max_frames, lastOp, rbExit, stats, delivered, gsCtx>>

SendCall(p) ==
    /\ SendCallBus(p)
    /\ UNCHANGED otherThanBus

\* send(frame) is called, and the sends that have returned by now are
\* remembered
SendCallAfter(p) ==
    /\ SendCallBus(p)
    /\ before' = [m \in DOMAIN before \cup {<<p, nsent[p] + 1>>} |->
                    IF m = <<p, nsent[p] + 1>> THEN SentMsgs ELSE before[m]]
    /\ UNCHANGED otherThanBusAndOrder

\* with self.lock: (read of self.messages_sent)
SendAcq(p) ==
    /\ pc[p] = "send_acq"
    /\ Acquire(target, p)
    /\ tmp' = [tmp EXCEPT ![p] = messages_sent[target]]
    /\ pc' = [pc EXCEPT ![p] = "send_inc"]
    /\ UNCHANGED <<q, messages_sent, messages_received, target, quota, nsent,
                   frames, max_frames, lastOp, rbExit, stats, delivered, excl, gsCtx>>
    /\ UNCHANGED otherThanBus

\* (mutant: send does not count the message)
CountSent_Skip(n) == n

\* self.messages_sent += 1, on the value read
CountSent(n) == n + 1

\* self.messages_sent += 1 (the write), and the lock is released
SendInc(p) ==
    /\ pc[p] = "send_inc"
    /\ messages_sent' = [messages_sent EXCEPT ![target] = CountSent(tmp[p])]
    /\ Release(target)
    /\ pc' = [pc EXCEPT ![p] = "send_put"]
    /\ tmp' = [tmp EXCEPT ![p] = 0]
    /\ UNCHANGED <<q, messages_received, target, quota, nsent,
                   frames, max_frames, lastOp, rbExit, stats, delivered, excl, gsCtx>>
    /\ UNCHANGED otherThanBus

\* self.q.put(frame): the queue is unbounded, put never blocks
SendPut(p) ==
    /\ pc[p] = "send_put"
    /\ q' = [q EXCEPT ![target] = QueuePut(@, <<p, nsent[p] + 1>>)]
    /\ nsent' = [nsent EXCEPT ![p] = @ + 1]
    /\ pc' = [pc EXCEPT ![p] = "idle"]
    /\ UNCHANGED <<messages_sent, messages_received, lock, target, quota, tmp,
                   frames, max_frames, lastOp, rbExit, stats, delivered, excl, gsCtx>>
    /\ UNCHANGED otherThanBus

(***************************************************************************)
(* send_batch(frames): can_bus.py 34-39, ethernet_bus.py 30-35             *)
(***************************************************************************)
\* (mutant: the batch is counted as one message)
BatchCount_One(n) == 1

\* len(frames)
BatchCount(n) == n

\* send_batch(frames) is called with n frames
SbCall(p, n) ==
    /\ pc[p] = "idle"
    /\ nsent[p] + n <= quota
    /\ pc' = [pc EXCEPT ![p] = "sb_acq"]
    /\ sbLeft' = [sbLeft EXCEPT ![p] = n]
    /\ sbSize' = [sbSize EXCEPT ![p] = n]
    /\ excl' = Disturb(p)
    /\ UNCHANGED <<q, messages_sent, messages_received, lock, target, quota, tmp, nsent,
                   frames, max_frames, lastOp, rbExit, stats, delivered, gsCtx>>
    /\ UNCHANGED otherThanBusAndBatch

\* with self.lock: (read of self.messages_sent)
SbAcq(p) ==
    /\ pc[p] = "sb_acq"
    /\ Acquire(target, p)
    /\ tmp' = [tmp EXCEPT ![p] = messages_sent[target]]
    /\ pc' = [pc EXCEPT ![p] = "sb_inc"]
    /\ UNCHANGED <<q, messages_sent, messages_received, target, quota, nsent,
                   frames, max_frames, lastOp, rbExit, stats, delivered, excl, gsCtx>>
    /\ UNCHANGED otherThanBus

\* self.messages_sent += len(frames) (the write), and the lock is released
SbInc(p) ==
    /\ pc[p] = "sb_inc"
    /\ messages_sent' = [messages_sent EXCEPT ![target] = tmp[p] + BatchCount(sbSize[p])]
    /\ Release(target)
    /\ pc' = [pc EXCEPT ![p] = "sb_put"]
    /\ tmp' = [tmp EXCEPT ![p] = 0]
    /\ UNCHANGED <<q, messages_received, target, quota, nsent,
                   frames, max_frames, lastOp, rbExit, stats, delivered, excl, gsCtx>>
    /\ UNCHANGED otherThanBus

\* for frame in frames: self.q.put(frame)
SbPut(p) ==
    /\ pc[p] = "sb_put"
    /\ sbLeft[p] > 0
    /\ q' = [q EXCEPT ![target] = QueuePut(@, <<p, nsent[p] + 1>>)]
    /\ nsent' = [nsent EXCEPT ![p] = @ + 1]
    /\ sbLeft' = [sbLeft EXCEPT ![p] = @ - 1]
    /\ UNCHANGED sbSize
    /\ UNCHANGED <<pc, messages_sent, messages_received, lock, target, quota, tmp,
                   frames, max_frames, lastOp, rbExit, stats, delivered, excl, gsCtx>>
    /\ UNCHANGED otherThanBusAndBatch

\* the loop is over (at once, for an empty list)
SbDone(p) ==
    /\ pc[p] = "sb_put"
    /\ sbLeft[p] = 0
    /\ pc' = [pc EXCEPT ![p] = "idle"]
    /\ UNCHANGED <<q, messages_sent, messages_received, lock, target, quota, tmp, nsent,
                   frames, max_frames, lastOp, rbExit, stats, delivered, excl, gsCtx>>
    /\ UNCHANGED otherThanBus

(***************************************************************************)
(* recv(timeout): can_bus.py 41-49, ethernet_bus.py 37-45                  *)
(***************************************************************************)
RecvCall(c) ==
    /\ pc[c] = "idle"
    /\ pc' = [pc EXCEPT ![c] = "recv_get"]
    /\ Begin(c, "recv", 0)
    /\ excl' = [Disturb(c) EXCEPT ![c] = FALSE]
    /\ UNCHANGED <<q, messages_sent, messages_received, lock, target, quota, tmp, nsent,
                   delivered>>
    /\ UNCHANGED otherThanBus

\* frame = self.q.get(timeout=timeout), a message is there
RecvGet(c) ==
    /\ pc[c] = "recv_get"
    /\ q[target] # <<>>
    /\ frames' = [frames EXCEPT ![c] = <<Head(q[target])>>]
    /\ q' = [q EXCEPT ![target] = QueueAfterGet(@)]
    /\ pc' = [pc EXCEPT ![c] = "recv_acq"]
    /\ UNCHANGED <<messages_sent, messages_received, lock, target, quota, tmp, nsent,
                   max_frames, lastOp, rbExit, stats, delivered, excl, gsCtx>>
    /\ UNCHANGED otherThanBus

\* queue.Empty after the timeout: return None
RecvEmpty(c) ==
    /\ pc[c] = "recv_get"
    /\ q[target] = <<>>
    /\ pc' = [pc EXCEPT ![c] = "idle"]
    /\ UNCHANGED <<q, messages_sent, messages_received, lock, target, quota, tmp, nsent,
                   frames, max_frames, lastOp, rbExit, stats, delivered, excl, gsCtx>>
    /\ UNCHANGED otherThanBus

RecvAcq(c) ==
    /\ pc[c] = "recv_acq"
    /\ Acquire(target, c)
    /\ tmp' = [tmp EXCEPT ![c] = messages_received[target]]
    /\ pc' = [pc EXCEPT ![c] = "recv_inc"]
    /\ UNCHANGED <<q, messages_sent, messages_received, target, quota, nsent,
                   frames, max_frames, lastOp, rbExit, stats, delivered, excl, gsCtx>>
    /\ UNCHANGED otherThanBus

\* (mutant: recv does not count the message)
CountReceived_Skip(n) == n

\* self.messages_received += 1, on the value read
CountReceived(n) == n + 1

\* self.messages_received += 1; return frame
RecvInc(c) ==
    /\ pc[c] = "recv_inc"
    /\ messages_received' = [messages_received EXCEPT ![target] = CountReceived(tmp[c])]
    /\ Release(target)
    /\ delivered' = [delivered EXCEPT ![frames[c][1]] = @ + 1]
    /\ pc' = [pc EXCEPT ![c] = "idle"]
    /\ tmp' = [tmp EXCEPT ![c] = 0]
    /\ UNCHANGED <<q, messages_sent, target, quota, nsent,
                   frames, max_frames, lastOp, rbExit, stats, excl, gsCtx>>
    /\ UNCHANGED otherThanBus

(***************************************************************************)
(* recv_batch(max_frames, timeout): can_bus.py 51-69, ethernet_bus.py 47-65*)
(***************************************************************************)
\* frames = []
RbCallBus(c, n) ==
    /\ pc[c] = "idle"
    /\ pc' = [pc EXCEPT ![c] = "rb_loop"]
    /\ Begin(c, "recv_batch", n)
    /\ excl' = [Disturb(c) EXCEPT
                  ![c] = Quiescent(c) /\ messages_received[target] = 0]
    /\ UNCHANGED <<q, messages_sent, messages_received, lock, target, quota, tmp, nsent,
                   delivered>>

\* frames = []; deadline = time.time() + timeout, the clock left out: the
\* deadline may pass at any evaluation of the loop's condition
RbCall(c, n) ==
    /\ RbCallBus(c, n)
    /\ UNCHANGED otherThanBus

\* frames = []; deadline = time.time() + timeout
RbCallAt(c, n, timeout) ==
    /\ clock + timeout <= MaxClock
    /\ RbCallBus(c, n)
    /\ deadline' = [deadline EXCEPT ![c] = clock + timeout]
    /\ rbBase' = [rbBase EXCEPT ![c] = messages_received[target]]
    /\ UNCHANGED <<clock, wait_end>>
    /\ UNCHANGED otherThanBusAndTime

\* The messages of `fs` are handed to the caller.
Deliver(fs) ==
    [m \in Msgs |-> delivered[m] + Cardinality({i \in 1..Len(fs) : fs[i] = m})]

RbReturn(c, how) ==
    /\ rbExit' = [rbExit EXCEPT ![c] = how]
    /\ delivered' = Deliver(frames[c])
    /\ pc' = [pc EXCEPT ![c] = "idle"]

\* while len(frames) < max_frames ...: the list is full
RbFull(c) ==
    /\ pc[c] = "rb_loop"
    /\ Len(frames[c]) >= max_frames[c]
    /\ RbReturn(c, "full")
    /\ UNCHANGED <<q, messages_sent, messages_received, lock, target, quota, tmp, nsent,
                   frames, max_frames, lastOp, stats, excl, gsCtx>>
    /\ UNCHANGED otherThanBus

\* ... and time.time() < deadline; remaining <= 0: break.  The clock is the
\* environment's: the deadline may have passed at any evaluation.
RbDeadline(c) ==
    /\ pc[c] = "rb_loop"
    /\ Len(frames[c]) < max_frames[c]
    /\ RbReturn(c, "deadline")
    /\ UNCHANGED <<q, messages_sent, messages_received, lock, target, quota, tmp, nsent,
                   frames, max_frames, lastOp, stats, excl, gsCtx>>
    /\ UNCHANGED otherThanBus

\* the loop condition holds and remaining > 0
RbEnterBus(c) ==
    /\ pc[c] = "rb_loop"
    /\ Len(frames[c]) < max_frames[c]
    /\ pc' = [pc EXCEPT ![c] = "rb_get"]
    /\ UNCHANGED <<q, messages_sent, messages_received, lock, target, quota, tmp, nsent,
                   frames, max_frames, lastOp, rbExit, stats, delivered, excl, gsCtx>>

RbEnter(c) ==
    /\ RbEnterBus(c)
    /\ UNCHANGED otherThanBus

\* min(remaining, 0.01)
GetTimeout(remaining) == IF remaining <= PollSlice THEN remaining ELSE PollSlice

\* time.time() < deadline; remaining = deadline - time.time() is positive;
\* self.q.get(timeout=min(remaining, 0.01)) is called
RbEnterAt(c) ==
    /\ clock < deadline[c]
    /\ RbEnterBus(c)
    /\ wait_end' = [wait_end EXCEPT ![c] = clock + GetTimeout(deadline[c] - clock)]
    /\ UNCHANGED <<clock, deadline, rbBase>>
    /\ UNCHANGED otherThanBusAndTime

\* frame = self.q.get(timeout=min(remaining, 0.01)); frames.append(frame)
RbGet(c) ==
    /\ pc[c] = "rb_get"
    /\ q[target] # <<>>
    /\ frames' = [frames EXCEPT ![c] = Append(@, Head(q[target]))]
    /\ q' = [q EXCEPT ![target] = QueueAfterGet(@)]
    /\ pc' = [pc EXCEPT ![c] = "rb_acq"]
    /\ UNCHANGED <<messages_sent, messages_received, lock, target, quota, tmp, nsent,
                   max_frames, lastOp, rbExit, stats, delivered, excl, gsCtx>>
    /\ UNCHANGED otherThanBus

\* (mutant: the loop is left at the first empty slice)
BreakOnEmpty_Always(fs) == TRUE

\* if frames: break
BreakOnEmpty(fs) == fs # <<>>

\* except queue.Empty: if frames: break
RbEmpty(c) ==
    /\ pc[c] = "rb_get"
    /\ q[target] = <<>>
    /\ IF BreakOnEmpty(frames[c])
       THEN RbReturn(c, "empty")
       ELSE /\ pc' = [pc EXCEPT ![c] = "rb_loop"]
            /\ UNCHANGED <<rbExit, delivered>>
    /\ UNCHANGED <<q, messages_sent, messages_received, lock, target, quota, tmp, nsent,
                   frames, max_frames, lastOp, stats, excl, gsCtx>>
    /\ UNCHANGED otherThanBus

RbAcq(c) ==
    /\ pc[c] = "rb_acq"
    /\ Acquire(target, c)
    /\ tmp' = [tmp EXCEPT ![c] = messages_received[target]]
    /\ pc' = [pc EXCEPT ![c] = "rb_inc"]
    /\ UNCHANGED <<q, messages_sent, messages_received, target, quota, nsent,
                   frames, max_frames, lastOp, rbExit, stats, delivered, excl, gsCtx>>
    /\ UNCHANGED otherThanBus

\* self.messages_received += 1
RbInc(c) ==
    /\ pc[c] = "rb_inc"
    /\ messages_received' = [messages_received EXCEPT ![target] = tmp[c] + 1]
    /\ Release(target)
    /\ pc' = [pc EXCEPT ![c] = "rb_loop"]
    /\ tmp' = [tmp EXCEPT ![c] = 0]
    /\ UNCHANGED <<q, messages_sent, target, quota, nsent,
                   frames, max_frames, lastOp, rbExit, stats, delivered, excl, gsCtx>>
    /\ UNCHANGED otherThanBus

(***************************************************************************)
(* recv_batch with the clock.  The steps of a thread take no time; time    *)
(* passes while the consumer is idle or waits in q.get on an empty queue,  *)
(* and q.get times out when its timeout has passed.                        *)
(***************************************************************************)
\* the deadline has passed: the loop's condition fails, or remaining <= 0
RbDeadlineAt(c) ==
    /\ clock >= deadline[c]
    /\ RbDeadline(c)

\* queue.Empty is raised when the timeout of q.get has passed
RbEmptyAt(c) ==
    /\ clock >= wait_end[c]
    /\ RbEmpty(c)

\* c does not keep the clock from advancing.
LetsTimePass(c) ==
    \/ pc[c] = "idle"
    \/ pc[c] = "rb_get" /\ q[target] = <<>> /\ clock < wait_end[c]

Tick ==
    /\ clock < MaxClock
    /\ \A c \in SingleConsumer : LetsTimePass(c)
    /\ clock' = clock + 1
    /\ UNCHANGED <<deadline, wait_end, rbBase>>
    /\ UNCHANGED <<busVars, idsVars, authVars, gwVars, secVars, batchVars, fifoVars, mintVars>>

InitTime ==
    /\ clock = 0
    /\ deadline = [c \in Consumers |-> 0]
    /\ wait_end = [c \in Consumers |-> 0]
    /\ rbBase = [c \in Consumers |-> 0]

(***************************************************************************)
(* get_stats(): can_bus.py 71-78, ethernet_bus.py 67-74                    *)
(***************************************************************************)
GsCall(o) ==
    /\ pc[o] = "idle"
    /\ pc' = [pc EXCEPT ![o] = "gs_acq"]
    /\ Begin(o, "get_stats", 0)
    /\ excl' = [excl EXCEPT ![o] = FALSE]
    /\ UNCHANGED <<q, messages_sent, messages_received, lock, target, quota, tmp, nsent,
                   delivered>>
    /\ UNCHANGED otherThanBus

\* (mutant: the lock is released before the queue's depth is read)
StatsHolder_Released(o) == NoThread

\* the lock's holder while the dict is built: the whole dict, qsize() too,
\* is evaluated inside `with self.lock:`
StatsHolder(o) == o

\* with self.lock: "sent": ..., "received": ... are evaluated
GsAcq(o) ==
    /\ pc[o] = "gs_acq"
    /\ CanAcquire(target)
    /\ lock' = [lock EXCEPT ![target] = StatsHolder(o)]
    /\ stats' = [stats EXCEPT ![o] = [sent |-> messages_sent[target],
                                      received |-> messages_received[target],
                                      queued |-> -1]]
    /\ gsCtx' = [gsCtx EXCEPT ![o] = [done |-> CompletedSends,
                                      busy |-> SendRunning]]
    /\ pc' = [pc EXCEPT ![o] = "gs_qsize"]
    /\ UNCHANGED <<q, messages_sent, messages_received, target, quota, tmp, nsent,
                   frames, max_frames, lastOp, rbExit, delivered, excl>>
    /\ UNCHANGED otherThanBus

\* "queued": self.q.qsize(); the dict is returned and the lock released
GsQsize(o) ==
    /\ pc[o] = "gs_qsize"
    /\ stats' = [stats EXCEPT ![o].queued = Len(q[target])]
    /\ Release(target)
    /\ pc' = [pc EXCEPT ![o] = "idle"]
    /\ UNCHANGED <<q, messages_sent, messages_received, target, quota, tmp, nsent,
                   frames, max_frames, lastOp, rbExit, delivered, excl, gsCtx>>
    /\ UNCHANGED otherThanBus

(***************************************************************************)
(* The messages submitted to the engine.  Payloads are byte sequences      *)
(* (numbers 0..255).                                                       *)
(***************************************************************************)
IdsThreads == {"g1", "g2"}

\* CANFrame(ts_ms, can_id, dlc, data, src = "node")
CANFrame(id, data, ts) ==
    [kind |-> "can", ts_ms |-> ts, can_id |-> id, src |-> "node", data |-> data]

\* EthernetPacket(ts_ms, src, dst, payload); a packet has no can_id
EthernetPacket(src, payload, ts) ==
    [kind |-> "eth", ts_ms |-> ts, can_id |-> -1, src |-> src, data |-> payload]

\* b"SPOOF"
SpoofMarker == <<83, 80, 79, 79, 70>>

\* The timestamps of the rate workloads reach past the window.
MaxTs == 2 * RateThreshold

\* 0x318, 0x700 and 0x701, with the payloads b"" and b"1"
PoolCan == {CANFrame(id, d, 0) : id \in {792, 1792, 1793}, d \in {<<>>, <<49>>}}

\* b"", b"SPOOF", b"1SPOOF1" and b"SPOO", from the attacker and the gateway
PoolEth ==
    {EthernetPacket(s, d, 0) :
        s \in {"attacker", "gateway"},
        d \in {<<>>, SpoofMarker, <<49>> \o SpoofMarker \o <<49>>,
               <<83, 80, 79, 79>>}}

\* one routing key (0x100), the timestamps vary
PoolRateCan == {CANFrame(256, <<>>, ts) : ts \in 0..MaxTs}

PoolRateEth == {EthernetPacket("gateway", <<>>, ts) : ts \in 0..MaxTs}

\* frames and packets on one engine
PoolMixed ==
    {CANFrame(1793, <<>>, 0), CANFrame(256, <<49>>, 0),
     EthernetPacket("attacker", <<>>, 0), EthernetPacket("gateway", SpoofMarker, 0)}

Pools == {PoolCan, PoolEth, PoolRateCan, PoolRateEth, PoolMixed}

(***************************************************************************)
(* _hash_message(data, identifier): security.py 50-52.                     *)
(* hashlib.sha256(data + identifier.encode()).hexdigest(): the digest is   *)
(* taken to be collision free, so a fingerprint is represented by the      *)
(* bytes that are hashed: the payload followed by the encoded identifier.  *)
(***************************************************************************)
RECURSIVE DecimalDigits(_)
\* str(n).encode() for n >= 0: the ASCII decimal digits
DecimalDigits(n) ==
    IF n < 10 THEN <<48 + n>>
    ELSE Append(DecimalDigits(n \div 10), 48 + (n % 10))

\* s.encode() of the source names the workloads use
EncodeStr(s) ==
    CASE s = "attacker" -> <<97, 116, 116, 97, 99, 107, 101, 114>>
      [] s = "gateway"  -> <<103, 97, 116, 101, 119, 97, 121>>
      [] s = "node"     -> <<110, 111, 100, 101>>

\* The identifier argument: str(frame.can_id) or pkt.src, encoded.
Identifier(m) ==
    IF m.kind = "can" THEN DecimalDigits(m.can_id) ELSE EncodeStr(m.src)

HashMessage(data, identifier) == data \o identifier

\* msg_hash of a frame or packet
MsgHash(m) == HashMessage(m.data, Identifier(m))

\* The key of self.timestamps: the int frame.can_id or the str pkt.src (an
\* int and a str are never equal as dict keys).
RoutingKey(m) ==
    IF m.kind = "can" THEN <<"int", m.can_id>> ELSE <<"str", m.src>>

(***************************************************************************)
(* The rate window: security.py 68-77 and 112-120.                         *)
(***************************************************************************)
\* self.timestamps[key]: a defaultdict gives a missing key an empty deque
Window(key) == IF key \in DOMAIN timestamps THEN timestamps[key] ELSE <<>>

RECURSIVE Evict_Inclusive(_, _)
\* (mutant: an entry exactly window_ms old is evicted too)
Evict_Inclusive(dq, now) ==
    IF dq # <<>> /\ now - Head(dq) >= WindowMs
    THEN Evict_Inclusive(Tail(dq), now) ELSE dq

\* (mutant: nothing is ever evicted)
Evict_Never(dq, now) == dq

RECURSIVE Evict(_, _)
\* while dq and now - dq[0] > self.window_ms: dq.popleft()
Evict(dq, now) ==
    IF dq # <<>> /\ now - Head(dq) > WindowMs THEN Evict(Tail(dq), now) ELSE dq

\* dq after dq.append(now) and the eviction loop
WindowAfter(dq, now) == Evict(Append(dq, now), now)

\* dos_rate = len(dq) > self.rate_threshold
DosRate(dq) == Len(dq) > RateThreshold

(***************************************************************************)
(* The protocol's own signal: security.py 82-83 and 125-126.               *)
(***************************************************************************)
\* (mutant: the boundary id 0x700 is flagged too)
Injection_Inclusive(frame) == frame.can_id >= InjectionThreshold

\* injection = frame.can_id > 0x700
Injection(frame) == frame.can_id > InjectionThreshold

RECURSIVE BytesIn(_, _)
\* needle in haystack, for bytes: the needle starts at some offset
BytesIn(needle, haystack) ==
    IF Len(haystack) < Len(needle) THEN FALSE
    ELSE \/ SubSeq(haystack, 1, Len(needle)) = needle
         \/ BytesIn(needle, Tail(haystack))

\* (mutant: `and` for `or`)
Spoofing_Both(pkt) == pkt.src = "attacker" /\ BytesIn(SpoofMarker, pkt.data)

\* spoofing = pkt.src == "attacker" or (isinstance(...) and b"SPOOF" in
\* pkt.payload); the payload is always bytes
Spoofing(pkt) == pkt.src = "attacker" \/ BytesIn(SpoofMarker, pkt.data)

Signal(m) == IF m.kind = "can" THEN Injection(m) ELSE Spoofing(m)

\* (mutant: packet_alerted = <signal>, the earlier signals are forgotten)
AlertAfter_Overwrite(alerted, signal) == signal

\* if <signal>: packet_alerted = True
AlertAfter(alerted, signal) == alerted \/ signal

\* (mutant: the counter is incremented whatever the signal)
CountIf_Always(n, cond) == n + 1

\* if <cond>: self.<counter> += 1
CountIf(n, cond) == IF cond THEN n + 1 ELSE n

(***************************************************************************)
(* check_can(frame) / check_eth(pkt): security.py 54-96 and 98-139.        *)
(* The two methods differ in the identifier, the routing key and the third *)
(* signal only; the whole body runs inside `with self.lock:`.              *)
(***************************************************************************)
\* (mutant: the body runs without the lock)
IdsLockFree_NoLock == TRUE

IdsLockFree == ids_lock = NoThread

NoLocal == [replay |-> FALSE, packet_alerted |-> FALSE]
NoVerdict == [replay |-> FALSE, dos_rate |-> FALSE, signal |-> FALSE,
              alerts |-> FALSE, valid |-> FALSE]

\* The calls made so far.
ChecksIssued == total_checked + Cardinality({t \in IdsThreads : ipc[t] = "lock"})

Running(t) == ipc[t] # "idle"

CheckCall(t, m) ==
    /\ ipc[t] = "idle"
    /\ ChecksIssued < MaxChecks
    /\ ipc' = [ipc EXCEPT ![t] = "lock"]
    /\ arg' = [arg EXCEPT ![t] = m]
    /\ local' = [local EXCEPT ![t] = NoLocal]
    /\ verdict' = [verdict EXCEPT ![t] = NoVerdict]
    /\ fresh' = [fresh EXCEPT ![t] = MsgHash(m) \notin seen_hashes]
    /\ concur' = [u \in IdsThreads |->
                    IF u = t THEN {v \in IdsThreads \ {t} : Running(v)}
                    ELSE IF Running(u) THEN concur[u] \cup {t}
                    ELSE concur[u] \ {t}]
    /\ UNCHANGED <<seen_hashes, timestamps, replay_detected, dos_detected,
                   injection_detected, spoofing_detected, total_checked,
                   total_detected_packets, ids_lock, pool, log, istats>>
    /\ UNCHANGED otherThanIds

\* (mutant: the check is not counted)
CountChecked_Skip(n) == n

\* self.total_checked += 1
CountChecked(n) == n + 1

\* with self.lock: self.total_checked += 1; packet_alerted = False;
\* replay = msg_hash in self.seen_hashes; if replay: ...
CheckLookup(t) ==
    /\ ipc[t] = "lock"
    /\ IdsLockFree
    /\ ids_lock' = t
    /\ LET replay == MsgHash(arg[t]) \in seen_hashes
       IN /\ total_checked' = CountChecked(total_checked)
          /\ replay_detected' = CountIf(replay_detected, replay)
          /\ local' = [local EXCEPT ![t].replay = replay,
                                    ![t].packet_alerted = AlertAfter(FALSE, replay)]
    /\ ipc' = [ipc EXCEPT ![t] = "insert"]
    /\ UNCHANGED <<seen_hashes, timestamps, dos_detected,
                   injection_detected, spoofing_detected,
                   total_detected_packets, pool, arg, verdict, log,
                   concur, fresh, istats>>
    /\ UNCHANGED otherThanIds

\* self.seen_hashes.add(msg_hash)
CheckInsert(t) ==
    /\ ipc[t] = "insert"
    /\ seen_hashes' = seen_hashes \cup {MsgHash(arg[t])}
    /\ ipc' = [ipc EXCEPT ![t] = "rate"]
    /\ UNCHANGED <<timestamps, replay_detected, dos_detected,
                   injection_detected, spoofing_detected, total_checked,
                   total_detected_packets, ids_lock, pool, arg, local, verdict,
                   log, concur, fresh, istats>>
    /\ UNCHANGED otherThanIds

\* (mutant: the eviction loop runs over the deque of every key)
TimestampsAfter_EvictAll(key, dq, now) ==
    [k \in DOMAIN timestamps \cup {key} |->
        IF k = key THEN dq ELSE Evict(timestamps[k], now)]

\* self.timestamps after the call: dq is the deque of key, and the call
\* reads or writes the deque of no other key
TimestampsAfter(key, dq, now) ==
    [k \in DOMAIN timestamps \cup {key} |->
        IF k = key THEN dq ELSE timestamps[k]]

\* dq = self.timestamps[key]; dq.append(now); the eviction loop; dos_rate;
\* injection / spoofing; total_detected_packets; the dict is returned and the
\* lock released
CheckRate(t) ==
    /\ ipc[t] = "rate"
    /\ LET key == RoutingKey(arg[t])
           dq == WindowAfter(Window(key), arg[t].ts_ms)
           dos_rate == DosRate(dq)
           signal == Signal(arg[t])
           packet_alerted ==
               AlertAfter(AlertAfter(local[t].packet_alerted, dos_rate), signal)
           result == [replay |-> local[t].replay,
                      dos_rate |-> dos_rate,
                      signal |-> signal,
                      alerts |-> packet_alerted,
                      valid |-> TRUE]
       IN /\ timestamps' = TimestampsAfter(key, dq, arg[t].ts_ms)
          /\ dos_detected' = CountIf(dos_detected, dos_rate)
          /\ injection_detected' =
                 CountIf(injection_detected, arg[t].kind = "can" /\ signal)
          /\ spoofing_detected' =
                 CountIf(spoofing_detected, arg[t].kind = "eth" /\ signal)
          /\ total_detected_packets' =
                 CountIf(total_detected_packets, packet_alerted)
          /\ verdict' = [verdict EXCEPT ![t] = result]
          /\ log' = Append(log, [msg |-> arg[t], verdict |-> result])
    /\ local' = [local EXCEPT ![t] = NoLocal]
    /\ ids_lock' = NoThread
    /\ ipc' = [ipc EXCEPT ![t] = "idle"]
    /\ UNCHANGED <<seen_hashes, replay_detected, total_checked, pool, arg,
                   concur, fresh, istats>>
    /\ UNCHANGED otherThanIds

\* get_stats(): with self.lock, the dict of the six counters (detection_rate
\* is computed from two of them).  The call reads under the lock and writes
\* nothing, so it is one step taken while no check holds the lock.
IdsGetStats(t) ==
    /\ ipc[t] = "idle"
    /\ IdsLockFree
    /\ istats' = [total_checked |-> total_checked,
                  total_detected_packets |-> total_detected_packets,
                  replay_detected |-> replay_detected,
                  dos_detected |-> dos_detected,
                  injection_detected |-> injection_detected,
                  spoofing_detected |-> spoofing_detected,
                  valid |-> TRUE]
    /\ UNCHANGED <<seen_hashes, timestamps, replay_detected, dos_detected,
                   injection_detected, spoofing_detected, total_checked,
                   total_detected_packets, ids_lock, pool, ipc, arg, local,
                   verdict, log, concur, fresh>>
    /\ UNCHANGED otherThanIds

(***************************************************************************)
(* The engine's workload: two threads share one engine.                    *)
(***************************************************************************)
\* EnhancedIDS.__init__
InitEngine ==
    /\ seen_hashes = {}
    /\ timestamps = <<>>
    /\ replay_detected = 0
    /\ dos_detected = 0
    /\ injection_detected = 0
    /\ spoofing_detected = 0
    /\ total_checked = 0
    /\ total_detected_packets = 0
    /\ ids_lock = NoThread

\* no get_stats call has returned
NoIdsStats ==
    [total_checked |-> 0, total_detected_packets |-> 0, replay_detected |-> 0,
     dos_detected |-> 0, injection_detected |-> 0, spoofing_detected |-> 0,
     valid |-> FALSE]

InitCallers(P) ==
    /\ pool \in P
    /\ ipc = [t \in IdsThreads |-> "idle"]
    /\ arg = [t \in IdsThreads |-> CANFrame(0, <<>>, 0)]
    /\ local = [t \in IdsThreads |-> NoLocal]
    /\ verdict = [t \in IdsThreads |-> NoVerdict]
    /\ log = <<>>
    /\ concur = [t \in IdsThreads |-> {}]
    /\ fresh = [t \in IdsThreads |-> FALSE]
    /\ istats = NoIdsStats

\* The engine is idle and no thread calls it.
IdsUnused == InitEngine /\ InitCallers({{}})

(***************************************************************************)
(* The authentication codec: security.py 12-29.                            *)
(* sign(data) is hmac.new(SECRET, data, sha256).digest()[:8]: a function   *)
(* of data alone (SECRET is read once, at import), whose values the model  *)
(* does not compute.  mac records the tags handed out so far; the tag of a *)
(* payload signed for the first time is any string of TagLen bytes that no *)
(* other payload has got (the truncated HMAC is taken to be collision free *)
(* on the payloads of a run, as SHA-256 is for the fingerprints), and the  *)
(* same payload gets the same tag ever after.                              *)
(***************************************************************************)
Bytes == {0, 1}

\* The tags of the model: TagLen bytes, the first, the inner ones and the
\* last chosen independently.
Tags ==
    {<<a>> \o [i \in 1..(TagLen - 2) |-> b] \o <<c>> : a, b, c \in Bytes}

Payloads == UNION {[1..n -> Bytes] : n \in 0..MaxPayloadLen}

\* sign(data): the tags the call may return
Sign(data) ==
    IF data \in DOMAIN mac THEN {mac[data]}
    ELSE Tags \ {mac[d] : d \in DOMAIN mac}

MacAfter(data, tag) ==
    [d \in DOMAIN mac \cup {data} |-> IF d = data THEN tag ELSE mac[d]]

\* (mutant: the last byte of the tag is not compared)
Verify_Prefix(signed, tag) ==
    SubSeq(signed, 1, TagLen - 1) = SubSeq(tag, 1, TagLen - 1)

\* hmac.compare_digest(sign(data), tag), given the tag that sign returned
Verify(signed, tag) == signed = tag

\* (mutant: one byte of the tag stays on the message)
DropLast_OffByOne(s, n) ==
    IF Len(s) < n THEN <<>> ELSE SubSeq(s, 1, Len(s) - n + 1)

\* s[:-n] and s[-n:] of Python, n > 0
DropLast(s, n) == IF Len(s) <= n THEN <<>> ELSE SubSeq(s, 1, Len(s) - n)

TakeLast(s, n) == IF Len(s) <= n THEN s ELSE SubSeq(s, Len(s) - n + 1, Len(s))

\* (mutant: a payload of exactly the tag's length is rejected too)
TooShort_Inclusive(p) == Len(p) <= TagLen

\* if len(payload) < 8
TooShort(p) == Len(p) < TagLen

NoOutcome == [msg |-> <<>>, valid |-> FALSE]

\* attach_auth(payload): return payload + sign(payload)
AttachAuth(m) ==
    /\ apc = "idle"
    /\ \E tag \in Sign(m) :
          /\ mac' = MacAfter(m, tag)
          /\ wire' = m \o tag
    /\ authArg' = m
    /\ attached' = TRUE
    /\ apc' = "wire"
    /\ UNCHANGED <<outcome, tampered>>
    /\ UNCHANGED otherThanAuth

\* The bytes that reach strip_and_verify without attach_auth: short ones,
\* TagLen - 1 bytes, and a payload followed by TagLen bytes.
Inputs ==
    Payloads \cup {Tail(t) : t \in Tags}
             \cup {m \o t : m \in Payloads, t \in Tags}

\* Bytes that did not come from attach_auth reach strip_and_verify.
Receive(w) ==
    /\ apc = "idle"
    /\ wire' = w
    /\ attached' = FALSE
    /\ apc' = "wire"
    /\ UNCHANGED <<mac, authArg, outcome, tampered>>
    /\ UNCHANGED otherThanAuth

\* One byte of attach_auth's result is changed on its way: byte i becomes b.
Tamper(i, b) ==
    /\ apc = "wire"
    /\ attached
    /\ i \in 1..Len(wire)
    /\ b # wire[i]
    /\ wire' = [wire EXCEPT ![i] = b]
    /\ attached' = FALSE
    /\ tampered' = i
    /\ UNCHANGED <<mac, apc, authArg, outcome>>
    /\ UNCHANGED otherThanAuth

\* strip_and_verify(payload)
StripAndVerify ==
    /\ apc = "wire"
    /\ IF TooShort(wire)
       THEN /\ outcome' = [msg |-> wire, valid |-> FALSE]
            /\ UNCHANGED mac
       ELSE LET msg == DropLast(wire, TagLen)
                tag == TakeLast(wire, TagLen)
            IN \E signed \in Sign(msg) :
                  /\ mac' = MacAfter(msg, signed)
                  /\ outcome' = [msg |-> msg, valid |-> Verify(signed, tag)]
    /\ apc' = "done"
    /\ UNCHANGED <<authArg, wire, attached, tampered>>
    /\ UNCHANGED otherThanAuth

InitCodec(st) ==
    /\ mac = <<>>
    /\ apc = st
    /\ authArg = <<>>
    /\ wire = <<>>
    /\ attached = FALSE
    /\ tampered = 0
    /\ outcome = NoOutcome

AuthUnused == InitCodec("off")

(***************************************************************************)
(* The protocol translator: gateway.py 7-90.                               *)
(* A message is a record; a frame has no dst and a packet no can_id and no *)
(* dlc (-1, NoDst).  A message id is a tuple: <<>> is the empty string,    *)
(* <<prefix, n>> the string f"{prefix}{n}".  The timestamps now_ms() of    *)
(* the built messages are left out.                                        *)
(***************************************************************************)
GwThreads == {"t1", "t2"}

\* dst = None
NoDst == "<None>"

\* CANFrame(ts_ms, can_id, dlc, data, src, msg_id)
Frame(can_id, dlc, data, src, msg_id) ==
    [kind |-> "can", can_id |-> can_id, dlc |-> dlc, data |-> data,
     src |-> src, dst |-> NoDst, msg_id |-> msg_id]

\* EthernetPacket(ts_ms, src, dst, payload, msg_id)
Packet(src, dst, data, msg_id) ==
    [kind |-> "eth", can_id |-> -1, dlc |-> -1, data |-> data,
     src |-> src, dst |-> dst, msg_id |-> msg_id]

\* self.can_to_eth_map: the default table of __init__
can_to_eth_map ==
    [id \in {256, 257, 512, 768} |->
        CASE id = 256 -> "192.168.0.10"
          [] id = 257 -> "192.168.0.11"
          [] id = 512 -> "192.168.0.20"
          [] id = 768 -> "192.168.0.30"]

\* (mutant: the reverse table knows the gateway's own source name)
eth_to_can_map_WithGateway ==
    [a \in {"192.168.0.10", "gateway"} |->
        CASE a = "192.168.0.10" -> 256
          [] a = "gateway" -> 256]

\* self.eth_to_can_map: the default table of __init__
eth_to_can_map ==
    [a \in {"192.168.0.10", "192.168.0.11", "192.168.0.20", "192.168.0.30"} |->
        CASE a = "192.168.0.10" -> 256
          [] a = "192.168.0.11" -> 257
          [] a = "192.168.0.20" -> 512
          [] a = "192.168.0.30" -> 768]

\* dict.get(key, default)
DictGet(d, key, default) == IF key \in DOMAIN d THEN d[key] ELSE default

\* the truth value of an Optional[str]: None and "" are false
Truthy(x) == x # NoDst /\ x # ""

\* ip = dst or self.can_to_eth_map.get(frame.can_id, "192.168.0.99")
DestinationOf(frame, dst) ==
    IF Truthy(dst) THEN dst
    ELSE DictGet(can_to_eth_map, frame.can_id, "192.168.0.99")

\* (mutant: a new id is minted for every message)
MustMint_Always(msg_id) == TRUE

\* `m.msg_id or gen_id(...)`: gen_id is called when the id is empty
MustMint(msg_id) == msg_id = <<>>

\* gen_id(prefix) once msg_counter.get_next() has returned n
GenId(prefix, n) == <<prefix, n>>

\* the id of the built message
IdOf(m, prefix) ==
    IF MustMint(m.msg_id) THEN GenId(prefix, msg_counter + 1) ELSE m.msg_id

Min(a, b) == IF a <= b THEN a ELSE b

\* (mutant: the payload is carried over whole)
FirstBytes_All(data, n) == data

\* data[:n]
FirstBytes(data, n) == SubSeq(data, 1, Min(Len(data), n))

\* the packet can_to_eth builds: gateway.py 40-47
CanToEth(frame, dst) ==
    Packet("gateway", DestinationOf(frame, dst), frame.data,
           IdOf(frame, "eth"))

\* the frame eth_to_can builds: gateway.py 66-74
EthToCan(pkt) ==
    Frame(DictGet(eth_to_can_map, pkt.src, FallbackCanId),
          Min(Len(pkt.data), CanMaxLen), FirstBytes(pkt.data, CanMaxLen),
          "gateway", IdOf(pkt, "can"))

\* The calls of the workloads.
Call(op, msg, dst) == [op |-> op, msg |-> msg, dst |-> dst]

\* b"\x01\x02...": n different bytes
BytesUpTo(n) == [i \in 1..n |-> i]

\* frames of a mapped (0x100) and an unmapped (0x555) id, with no dst, an
\* empty dst and an address as dst
GwPoolDst ==
    {Call("can_to_eth", Frame(id, 2, BytesUpTo(2), "node", <<"m", 1>>), d) :
        id \in {256, 1365}, d \in {NoDst, "", "10.0.0.7"}}

\* frames and packets with and without a message id, the payload empty or not
GwPoolId ==
    {Call("can_to_eth", Frame(256, n, BytesUpTo(n), "node", i), NoDst) :
        n \in {0, 1}, i \in {<<>>, <<"m", 1>>}}
    \cup {Call("eth_to_can", Packet("192.168.0.10", "192.168.0.1", <<>>, i), NoDst) :
            i \in {<<>>, <<"m", 2>>}}

\* packets of a mapped and an unmapped source, the payload empty, of CAN's
\* size, one byte longer and of 64 bytes
GwPoolLen ==
    {Call("eth_to_can", Packet(a, "192.168.0.1", BytesUpTo(n), <<"m", 3>>), NoDst) :
        a \in {"192.168.0.11", "10.9.9.9"},
        n \in {0, CanMaxLen, CanMaxLen + 1, 64}}

GwPools == {GwPoolDst, GwPoolId, GwPoolLen}

\* frames to translate there and back: a mapped (0x100) and an unmapped
\* (0x555) id, the payload empty, of CAN's size and one byte longer, and a
\* frame whose dlc is not its payload's length
GwPoolTrip ==
    {Call("can_to_eth", Frame(id, n, BytesUpTo(n), "node", <<"m", 1>>), NoDst) :
        id \in {256, 1365}, n \in {0, CanMaxLen, CanMaxLen + 1}}
      \cup {Call("can_to_eth", Frame(256, CanMaxLen, BytesUpTo(1), "node", <<"m", 2>>),
                 NoDst)}

NoMessage == Frame(-1, 0, <<>>, "", <<>>)

NoGwStats == [translations |-> -1, latency_sum |-> 0, latency_count |-> -1,
              done |-> -1, busy |-> TRUE]

\* (mutant: the statistics are updated without the lock)
GwLockFree_NoLock == TRUE

GwLockFree == gw_lock = NoThread

GwRunning(t) == gpc[t] # "idle"

\* A message a translation has returned may be translated back.
Returned_Calls ==
    {Call(IF gout[t].kind = "can" THEN "can_to_eth" ELSE "eth_to_can",
          gout[t], NoDst) : t \in {u \in GwThreads : gout[u] # NoMessage /\ ~GwRunning(u)}}

\* can_to_eth / eth_to_can up to the built message: gateway.py 29-47, 59-74
TrCall(t, c) ==
    /\ gpc[t] = "idle"
    /\ completed + Cardinality({u \in GwThreads : GwRunning(u)}) < MaxTranslations
    /\ gin' = [gin EXCEPT ![t] = c.msg]
    /\ gcalled' = [gcalled EXCEPT ![t] = c.msg]
    /\ gdst' = [gdst EXCEPT ![t] = c.dst]
    /\ gout' = [gout EXCEPT ![t] =
                  IF c.op = "can_to_eth" THEN CanToEth(c.msg, c.dst)
                  ELSE EthToCan(c.msg)]
    /\ gminted' = [gminted EXCEPT ![t] = MustMint(c.msg.msg_id)]
    /\ msg_counter' = IF MustMint(c.msg.msg_id) THEN msg_counter + 1
                      ELSE msg_counter
    /\ gstats' = [gstats EXCEPT ![t] = NoGwStats]
    /\ overlapped' = (overlapped \/ \E u \in GwThreads : GwRunning(u))
    /\ gpc' = [gpc EXCEPT ![t] = "lock"]
    /\ UNCHANGED <<translation_count, latencies, gw_lock, gwpool, gtmp,
                   completed>>
    /\ UNCHANGED otherThanGw

\* with self.lock: the read of self.translation_count += 1
TrEnter(t) ==
    /\ gpc[t] = "lock"
    /\ GwLockFree
    /\ gw_lock' = t
    /\ gtmp' = [gtmp EXCEPT ![t] = translation_count]
    /\ gpc' = [gpc EXCEPT ![t] = "write"]
    /\ UNCHANGED <<translation_count, latencies, msg_counter, gwpool, gin, gdst,
                   gout, gstats, gcalled, gminted, completed, overlapped>>
    /\ UNCHANGED otherThanGw

\* the write of self.translation_count += 1
TrWrite(t) ==
    /\ gpc[t] = "write"
    /\ translation_count' = gtmp[t] + 1
    /\ gtmp' = [gtmp EXCEPT ![t] = 0]
    /\ gpc' = [gpc EXCEPT ![t] = "append"]
    /\ UNCHANGED <<latencies, gw_lock, msg_counter, gwpool, gin, gdst, gout,
                   gstats, gcalled, gminted, completed, overlapped>>
    /\ UNCHANGED otherThanGw

\* latency = now_ms() - start_time; self.latencies.append(latency); the lock
\* is released and the built message returned
TrAppend(t, latency) ==
    /\ gpc[t] = "append"
    /\ latencies' = Append(latencies, latency)
    /\ gw_lock' = NoThread
    /\ completed' = completed + 1
    /\ gpc' = [gpc EXCEPT ![t] = "idle"]
    /\ UNCHANGED <<translation_count, msg_counter, gwpool, gin, gdst, gout,
                   gtmp, gstats, gcalled, gminted, overlapped>>
    /\ UNCHANGED otherThanGw

\* the values of now_ms() - start_time in the model
Latencies == {0, 1}

RECURSIVE SumSeq(_)
\* sum(self.latencies)
SumSeq(xs) == IF xs = <<>> THEN 0 ELSE Head(xs) + SumSeq(Tail(xs))

\* get_stats(): gateway.py 83-90; avg_latency_ms is latency_sum /
\* latency_count, 0 for an empty list
TrStats(t) ==
    /\ gpc[t] = "idle"
    /\ GwLockFree
    /\ gstats' = [gstats EXCEPT ![t] =
                    [translations |-> translation_count,
                     latency_sum |-> SumSeq(latencies),
                     latency_count |-> Len(latencies),
                     done |-> completed,
                     busy |-> \E u \in GwThreads : GwRunning(u)]]
    /\ UNCHANGED <<translation_count, latencies, gw_lock, msg_counter, gwpool,
                   gpc, gin, gdst, gout, gtmp, gcalled, gminted, completed, overlapped>>
    /\ UNCHANGED otherThanGw

\* ProtocolTranslator.__init__, and msg_counter = Counter()
InitTranslator(P) ==
    /\ translation_count = 0
    /\ latencies = <<>>
    /\ gw_lock = NoThread
    /\ msg_counter = 0
    /\ gwpool \in P
    /\ gpc = [t \in GwThreads |-> "idle"]
    /\ gin = [t \in GwThreads |-> NoMessage]
    /\ gdst = [t \in GwThreads |-> NoDst]
    /\ gout = [t \in GwThreads |-> NoMessage]
    /\ gtmp = [t \in GwThreads |-> 0]
    /\ gstats = [t \in GwThreads |-> NoGwStats]
    /\ gcalled = [t \in GwThreads |-> NoMessage]
    /\ gminted = [t \in GwThreads |-> FALSE]
    /\ completed = 0
    /\ overlapped = FALSE

GwUnused == InitTranslator({{}})

(***************************************************************************)
(* gen_id and Counter.get_next: utils.py 9-19 and 43-45.                   *)
(* `self.value += 1` is a read and a write of the attribute, and           *)
(* `return self.value` reads it again, all inside `with self.lock`.        *)
(***************************************************************************)
Minters == {"n1", "n2", "n3"}

\* the prefixes the callers pass
Prefixes == {"can", "eth"}

\* gen_id(prefix) is called: msg_counter.get_next() waits for the lock
MintCall(t, prefix) ==
    /\ mpc[t] = "idle"
    /\ Len(minted) + Cardinality({u \in Minters : mpc[u] # "idle"}) < MaxMints
    /\ mprefix' = [mprefix EXCEPT ![t] = prefix]
    /\ mpc' = [mpc EXCEPT ![t] = "lock"]
    /\ UNCHANGED <<ctr_lock, mtmp, minted, gwVars>>
    /\ UNCHANGED otherThanMint

\* (mutant: get_next does not take the lock)
CounterLockFree_NoLock == TRUE

CounterLockFree == ctr_lock = NoThread

\* with self.lock: the read of self.value += 1
MintRead(t) ==
    /\ mpc[t] = "lock"
    /\ CounterLockFree
    /\ ctr_lock' = t
    /\ mtmp' = [mtmp EXCEPT ![t] = msg_counter]
    /\ mpc' = [mpc EXCEPT ![t] = "write"]
    /\ UNCHANGED <<mprefix, minted, gwVars>>
    /\ UNCHANGED otherThanMint

\* the write of self.value += 1
MintWrite(t) ==
    /\ mpc[t] = "write"
    /\ msg_counter' = mtmp[t] + 1
    /\ mpc' = [mpc EXCEPT ![t] = "return"]
    /\ UNCHANGED <<ctr_lock, mprefix, mtmp, minted>>
    /\ UNCHANGED <<translation_count, latencies, gw_lock, gwRest>>
    /\ UNCHANGED otherThanMint

\* return self.value; the lock is released and gen_id returns
\* f"{prefix}{value}"
MintReturn(t) ==
    /\ mpc[t] = "return"
    /\ minted' = Append(minted, GenId(mprefix[t], msg_counter))
    /\ ctr_lock' = NoThread
    /\ mtmp' = [mtmp EXCEPT ![t] = 0]
    /\ mpc' = [mpc EXCEPT ![t] = "idle"]
    /\ UNCHANGED <<mprefix, gwVars>>
    /\ UNCHANGED otherThanMint

\* Counter.__init__; no thread is in gen_id
InitMint ==
    /\ ctr_lock = NoThread
    /\ mpc = [t \in Minters |-> "idle"]
    /\ mprefix = [t \in Minters |-> "can"]
    /\ mtmp = [t \in Minters |-> 0]
    /\ minted = <<>>

(***************************************************************************)
(* The secure pipeline: the loop body of run_secure, scenarios.py 402-432, *)
(* run by the main thread, one frame of can_frames at a time.  The frames  *)
(* come from gen_can_batch (scenarios.py 40-53).  The two verdicts of the  *)
(* engine are inputs of the steps that ask for them.  The attackers'       *)
(* threads send their frames to the CAN bus meanwhile (attacks.py 38-53),  *)
(* and run_baseline translates packets to frames (scenarios.py 176-186).   *)
(***************************************************************************)
\* dlc = random.randint(1, 8): the smallest and the largest
GenDlcs == {1, CanMaxLen}

\* can_ids of gen_can_batch: one of them
GenCanIds == {256}

\* the latency the translator measures in the pipeline's runs
SecLatencies == {0}

\* the frame gen_can_batch makes: dlc bytes of data and a minted id
GenFrame(id, n) ==
    Frame(id, n, BytesUpTo(n), "ecu_0", GenId("can_b0_", msg_counter + 1))

\* auth_frame = CANFrame(ts_ms, can_id, dlc = len(auth_payload),
\*                       data = auth_payload, src, msg_id)
AuthFrame(frame, auth_payload) ==
    Frame(frame.can_id, Len(auth_payload), auth_payload, frame.src,
          frame.msg_id)

\* bus.send(m) by a thread that is not interrupted: the counter and the put
BusSend(b, m) ==
    /\ messages_sent' = [messages_sent EXCEPT ![b] = @ + 1]
    /\ q' = [q EXCEPT ![b] = QueuePut(@, m)]

\* replay = msg_hash in self.seen_hashes
PipeReplay(m) == MsgHash(m) \in seen_hashes

\* alerts["alerts"]: packet_alerted after the three tests.  The timestamps of
\* the pipeline's messages are readings of the wall clock, so the rate
\* verdict dos is an input of the step and the rate windows are not kept.
PipeAlerts(m, dos) ==
    AlertAfter(AlertAfter(AlertAfter(FALSE, PipeReplay(m)), dos), Signal(m))

\* ids.check_can(m) / ids.check_eth(m) by the main thread, the only caller of
\* the engine in run_secure: the body of the method, under the lock
PipeCheck(m, dos) ==
    /\ total_checked' = CountChecked(total_checked)
    /\ seen_hashes' = seen_hashes \cup {MsgHash(m)}
    /\ replay_detected' = CountIf(replay_detected, PipeReplay(m))
    /\ dos_detected' = CountIf(dos_detected, dos)
    /\ injection_detected' =
           CountIf(injection_detected, m.kind = "can" /\ Signal(m))
    /\ spoofing_detected' =
           CountIf(spoofing_detected, m.kind = "eth" /\ Signal(m))
    /\ total_detected_packets' =
           CountIf(total_detected_packets, PipeAlerts(m, dos))
    /\ flagged' = IF PipeAlerts(m, dos) THEN flagged \cup {m.msg_id} ELSE flagged
    /\ UNCHANGED idsRest

\* The outcomes recorded for the message id so far.
FateOf(id) == IF id \in DOMAIN fate THEN fate[id] ELSE {}

\* status = "passed" (the packet went to the egress bus) or "blocked_can",
\* "blocked_eth", "blocked_attack"
FateAfter(id, outcome_) ==
    [i \in DOMAIN fate \cup {id} |->
        IF i = id THEN FateOf(id) \cup {outcome_} ELSE fate[i]]

\* for frame in can_frames: auth_payload = attach_auth(frame.data);
\* auth_frame = CANFrame(...)
SecAuth(id, n) ==
    /\ spc = "idle"
    /\ sdone < MaxPipeline
    /\ LET frame == GenFrame(id, n)
       IN \E tag \in Sign(frame.data) :
             /\ mac' = MacAfter(frame.data, tag)
             /\ sauth' = AuthFrame(frame, frame.data \o tag)
    /\ msg_counter' = msg_counter + 1
    /\ sdone' = sdone + 1
    /\ spc' = "authed"
    /\ UNCHANGED flagged
    /\ UNCHANGED <<spkt, submitted, produced, attack_frames, fate, taken, q,
                   messages_sent, messages_received, translation_count,
                   latencies>>
    /\ UNCHANGED <<idsVars, busRest, authRest, gwRest, timeVars, batchVars, fifoVars, mintVars>>

\* alerts = ids.check_can(auth_frame); if not alerts["alerts"]: ... else:
\* status = "blocked_can"
SecCheckCan(dos) ==
    /\ spc = "authed"
    /\ PipeCheck(sauth, dos)
    /\ submitted' = submitted \cup {sauth}
    /\ IF PipeAlerts(sauth, dos)
       THEN /\ spc' = "idle"
            /\ fate' = FateAfter(sauth.msg_id, "blocked")
       ELSE /\ spc' = "pass"
            /\ fate' = fate
    /\ UNCHANGED <<sauth, spkt, sdone, produced, attack_frames, taken, q,
                   messages_sent, messages_received, mac, msg_counter,
                   translation_count, latencies>>
    /\ UNCHANGED <<busRest, authRest, gwRest, timeVars, batchVars, fifoVars, mintVars>>

\* can_bus.send(auth_frame); eth_pkt = gateway.can_to_eth(auth_frame)
SecTranslate(latency) ==
    /\ spc = "pass"
    /\ BusSend("can", sauth)
    /\ spkt' = CanToEth(sauth, NoDst)
    /\ msg_counter' = IF MustMint(sauth.msg_id) THEN msg_counter + 1
                      ELSE msg_counter
    /\ translation_count' = translation_count + 1
    /\ latencies' = Append(latencies, latency)
    /\ spc' = "translated"
    /\ UNCHANGED flagged
    /\ UNCHANGED <<sauth, sdone, submitted, produced, attack_frames, fate,
                   taken, messages_received, mac>>
    /\ UNCHANGED <<idsVars, busRest, authRest, gwRest, timeVars, batchVars, fifoVars, mintVars>>

\* (mutant: the packet is sent whatever check_eth said)
MayForward_Always(alerts) == TRUE

\* if not eth_alerts["alerts"]:
MayForward(alerts) == ~alerts

\* eth_alerts = ids.check_eth(eth_pkt); if not eth_alerts["alerts"]:
\* eth_bus.send(eth_pkt); status = "passed" else: status = "blocked_eth"
SecCheckEth(dos) ==
    /\ spc = "translated"
    /\ PipeCheck(spkt, dos)
    /\ IF MayForward(PipeAlerts(spkt, dos))
       THEN /\ BusSend("eth", spkt)
            /\ fate' = FateAfter(spkt.msg_id, "forwarded")
       ELSE /\ UNCHANGED <<q, messages_sent>>
            /\ fate' = FateAfter(spkt.msg_id, "blocked")
    /\ spc' = "idle"
    /\ UNCHANGED <<sauth, spkt, sdone, submitted, produced, attack_frames,
                   taken, messages_received, mac, msg_counter,
                   translation_count, latencies>>
    /\ UNCHANGED <<busRest, authRest, gwRest, timeVars, batchVars, fifoVars, mintVars>>

\* the loop over can_frames is over: time.sleep(0.5)
SecLoopEnd ==
    /\ spc = "idle"
    /\ spc' = "drain"
    /\ UNCHANGED flagged
    /\ UNCHANGED <<sauth, spkt, sdone, submitted, produced, attack_frames,
                   fate, taken, q, messages_sent, messages_received, mac,
                   msg_counter, translation_count, latencies>>
    /\ UNCHANGED <<idsVars, busRest, authRest, gwRest, timeVars, batchVars, fifoVars, mintVars>>

\* attack_frames = can_bus.recv_batch(200, timeout=1.0), by the main thread:
\* the first k frames of the queue
SecRecvBatch(k) ==
    /\ spc = "drain"
    /\ k <= Len(q["can"])
    /\ attack_frames' = SubSeq(q["can"], 1, k)
    /\ q' = [q EXCEPT !["can"] = SubSeq(@, k + 1, Len(@))]
    /\ messages_received' = [messages_received EXCEPT !["can"] = @ + k]
    /\ taken' = taken \cup {q["can"][i].msg_id : i \in 1..k}
    /\ spc' = "checking"
    /\ UNCHANGED flagged
    /\ UNCHANGED <<sauth, spkt, sdone, submitted, produced, fate,
                   messages_sent, mac, msg_counter, translation_count,
                   latencies>>
    /\ UNCHANGED <<idsVars, busRest, authRest, gwRest, timeVars, batchVars, fifoVars, mintVars>>

\* for frame in attack_frames: alerts = ids.check_can(frame);
\* if alerts["alerts"]: blocked_count += 1; records.append(status =
\* "blocked_attack"); a frame with a clean verdict is only dropped from the
\* list
SecCheckDequeued(dos) ==
    /\ spc = "checking"
    /\ attack_frames # <<>>
    /\ PipeCheck(Head(attack_frames), dos)
    /\ fate' = IF PipeAlerts(Head(attack_frames), dos)
               THEN FateAfter(Head(attack_frames).msg_id, "blocked")
               ELSE fate
    /\ attack_frames' = Tail(attack_frames)
    /\ UNCHANGED <<spc, sauth, spkt, sdone, submitted, produced, taken, q,
                   messages_sent, messages_received, mac, msg_counter,
                   translation_count, latencies>>
    /\ UNCHANGED <<busRest, authRest, gwRest, timeVars, batchVars, fifoVars, mintVars>>

\* the loop over attack_frames is over
SecFinish ==
    /\ spc = "checking"
    /\ attack_frames = <<>>
    /\ spc' = "done"
    /\ UNCHANGED flagged
    /\ UNCHANGED <<sauth, spkt, sdone, submitted, produced, attack_frames,
                   fate, taken, q, messages_sent, messages_received, mac,
                   msg_counter, translation_count, latencies>>
    /\ UNCHANGED <<idsVars, busRest, authRest, gwRest, timeVars, batchVars, fifoVars, mintVars>>

\* dos_attack_can: CANFrame(can_id, dlc = len(payload[:8]), data =
\* payload[:8], src = "dos_attacker", msg_id = gen_id("dos")); bus.send
SecAttack(id, payload) ==
    /\ messages_sent["can"] < MaxPipeline
    /\ BusSend("can", Frame(id, Len(FirstBytes(payload, CanMaxLen)),
                            FirstBytes(payload, CanMaxLen), "dos_attacker",
                            GenId("dos", msg_counter + 1)))
    /\ msg_counter' = msg_counter + 1
    /\ UNCHANGED <<secVars, messages_received, mac, translation_count, latencies>>
    /\ UNCHANGED <<idsVars, busRest, authRest, gwRest, timeVars, batchVars, fifoVars, mintVars>>

\* replay_attack_can: a frame of can_frames[:30] is sent again, as
\* CANFrame(can_id, dlc, data, src = "replay_attacker",
\*          msg_id = gen_id("replay")); bus.send
SecReplay(id, n) ==
    /\ messages_sent["can"] < MaxPipeline
    /\ BusSend("can", Frame(id, n, BytesUpTo(n), "replay_attacker",
                            GenId("replay", msg_counter + 1)))
    /\ msg_counter' = msg_counter + 1
    /\ UNCHANGED <<secVars, messages_received, mac, translation_count, latencies>>
    /\ UNCHANGED <<idsVars, busRest, authRest, gwRest, timeVars, batchVars, fifoVars, mintVars>>

\* run_baseline: can_frame = gateway.eth_to_can(packet);
\* can_bus.send(can_frame), for a packet of gen_eth_batch
SecReverse(n, latency) ==
    /\ messages_sent["can"] < MaxPipeline
    /\ LET pkt == Packet("node_0", "192.168.0.10", BytesUpTo(n),
                         GenId("eth_b0_", msg_counter + 1))
       IN /\ produced' = produced \cup {EthToCan(pkt)}
          /\ BusSend("can", EthToCan(pkt))
    /\ msg_counter' = msg_counter + 1
    /\ translation_count' = translation_count + 1
    /\ latencies' = Append(latencies, latency)
    /\ UNCHANGED flagged
    /\ UNCHANGED <<spc, sauth, spkt, sdone, submitted, attack_frames, fate,
                   taken, messages_received, mac>>
    /\ UNCHANGED <<idsVars, busRest, authRest, gwRest, timeVars, batchVars, fifoVars, mintVars>>

InitPipeline(st) ==
    /\ spc = st
    /\ sauth = NoMessage
    /\ spkt = NoMessage
    /\ sdone = 0
    /\ submitted = {}
    /\ produced = {}
    /\ attack_frames = <<>>
    /\ fate = <<>>
    /\ taken = {}
    /\ flagged = {}

SecUnused == InitPipeline("off")

(***************************************************************************)
(* The bus workload: K producers and the consumers on one bus.             *)
(***************************************************************************)
InitBuses(m) ==
    /\ quota = m
    /\ q = [b \in Buses |-> <<>>]
    /\ messages_sent = [b \in Buses |-> 0]
    /\ messages_received = [b \in Buses |-> 0]
    /\ lock = [b \in Buses |-> NoThread]
    /\ target \in (IF m = 0 THEN {"can"} ELSE Buses)
    /\ pc = [t \in BusThreads |-> "idle"]
    /\ tmp = [t \in BusThreads |-> 0]
    /\ nsent = [p \in Producers |-> 0]
    /\ frames = [c \in Consumers |-> <<>>]
    /\ max_frames = [c \in Consumers |-> 0]
    /\ lastOp = [c \in Consumers |-> "none"]
    /\ rbExit = [c \in Consumers |-> "none"]
    /\ stats = [c \in Consumers |-> NoStats]
    /\ delivered = [x \in Producers \X (1..m) |-> 0]
    /\ excl = [c \in Consumers |-> FALSE]
    /\ gsCtx = [c \in Consumers |-> NoCtx]
    /\ InitTime
    /\ sbLeft = [p \in Producers |-> 0]
    /\ sbSize = [p \in Producers |-> 0]
    /\ before = <<>>
    /\ InitMint

ProducerStep(p) == SendCall(p) \/ SendAcq(p) \/ SendInc(p) \/ SendPut(p)

ReceiveStep(c) ==
    \/ RecvCall(c) \/ RecvGet(c) \/ RecvEmpty(c) \/ RecvAcq(c) \/ RecvInc(c)
    \/ \E n \in BatchSizes : RbCall(c, n)
    \/ RbFull(c) \/ RbDeadline(c) \/ RbEnter(c) \/ RbGet(c) \/ RbEmpty(c)
    \/ RbAcq(c) \/ RbInc(c)

StatsStep(c) == GsCall(c) \/ GsAcq(c) \/ GsQsize(c)

\* One receiving thread, which also reads the statistics.
InitBus ==
    /\ InitBuses(MsgsPerProducer)
    /\ IdsUnused /\ AuthUnused /\ GwUnused /\ SecUnused

NextBus ==
    \/ \E p \in Producers : ProducerStep(p)
    \/ \E c \in SingleConsumer : ReceiveStep(c) \/ StatsStep(c)

SpecBus == InitBus /\ [][NextBus]_vars

\* The stress workload: the producers and all the consumers.
InitStress ==
    InitBuses(StressMsgs) /\ IdsUnused /\ AuthUnused /\ GwUnused /\ SecUnused

NextStress ==
    \/ \E p \in Producers : ProducerStep(p)
    \/ \E c \in Consumers : ReceiveStep(c)

SpecStress == InitStress /\ [][NextStress]_vars

\* Every thread keeps running, and the timeouts are positive: a thread that
\* keeps calling recv_batch passes the deadline test of the loop's first
\* evaluation again and again.
FairSpecStress ==
    /\ SpecStress
    /\ \A p \in Producers : WF_vars(ProducerStep(p))
    /\ \A c \in Consumers : WF_vars(ReceiveStep(c)) /\ SF_vars(RbEnter(c))

\* The batch workload: one producer sends batches, the other single
\* messages, and one consumer calls recv and reads the statistics.
BatchLens == 0..MsgsPerProducer

BatchSenders == {"p1"}

SingleSenders == {"p2"}

InitSendBatch ==
    InitBuses(MsgsPerProducer) /\ IdsUnused /\ AuthUnused /\ GwUnused /\ SecUnused

SendBatchStep(p) ==
    \/ \E n \in BatchLens : SbCall(p, n)
    \/ SbAcq(p) \/ SbInc(p) \/ SbPut(p) \/ SbDone(p)

RecvStep(c) == RecvCall(c) \/ RecvGet(c) \/ RecvEmpty(c) \/ RecvAcq(c) \/ RecvInc(c)

NextSendBatch ==
    \/ \E p \in BatchSenders : SendBatchStep(p)
    \/ \E p \in SingleSenders : ProducerStep(p)
    \/ \E c \in SingleConsumer : RecvStep(c) \/ StatsStep(c)

SpecSendBatch == InitSendBatch /\ [][NextSendBatch]_vars

\* The ordered workload: the producers call send, one consumer calls recv and
\* recv_batch.
OrderedSendStep(p) == SendCallAfter(p) \/ SendAcq(p) \/ SendInc(p) \/ SendPut(p)

InitFifo ==
    InitBuses(MsgsPerProducer) /\ IdsUnused /\ AuthUnused /\ GwUnused /\ SecUnused

NextFifo ==
    \/ \E p \in Producers : OrderedSendStep(p)
    \/ \E c \in SingleConsumer : ReceiveStep(c)

SpecFifo == InitFifo /\ [][NextFifo]_vars

\* The snapshot workload: a producer sends batches and single messages, one
\* consumer calls recv and recv_batch, and another thread reads the
\* statistics.
SnapshotSenders == {"p1"}

StatsReaders == {"c1"}

Receivers == {"c2"}

SnapshotLens == 0..StressMsgs

InitSnapshot ==
    InitBuses(StressMsgs) /\ IdsUnused /\ AuthUnused /\ GwUnused /\ SecUnused

NextSnapshot ==
    \/ \E p \in SnapshotSenders :
          \/ \E n \in SnapshotLens : SbCall(p, n)
          \/ SbAcq(p) \/ SbInc(p) \/ SbPut(p) \/ SbDone(p)
          \/ ProducerStep(p)
    \/ \E c \in Receivers : ReceiveStep(c)
    \/ \E c \in StatsReaders : StatsStep(c)

SpecSnapshot == InitSnapshot /\ [][NextSnapshot]_vars

\* The timed workload: a producer, and one consumer that calls recv_batch
\* with a timeout.
Timeouts == 0..MaxTimeout

TimedBatchSizes == {0, 1, BatchMsgs + 1}

BatchProducers == {"p1"}

InitBatch ==
    InitBuses(BatchMsgs) /\ IdsUnused /\ AuthUnused /\ GwUnused /\ SecUnused

BatchStep(c) ==
    \/ \E n \in TimedBatchSizes : \E timeout \in Timeouts : RbCallAt(c, n, timeout)
    \/ RbFull(c) \/ RbDeadlineAt(c) \/ RbEnterAt(c) \/ RbGet(c) \/ RbEmptyAt(c)
    \/ RbAcq(c) \/ RbInc(c)

NextBatch ==
    \/ \E p \in BatchProducers : ProducerStep(p)
    \/ \E c \in SingleConsumer : BatchStep(c)
    \/ Tick

SpecBatch == InitBatch /\ [][NextBatch]_vars

\* Every thread keeps running, so a lock that is held is released, and time
\* keeps passing.
FairSpecBatch ==
    /\ SpecBatch
    /\ \A p \in BatchProducers : WF_vars(ProducerStep(p))
    /\ \A c \in SingleConsumer : WF_vars(BatchStep(c))
    /\ WF_vars(Tick)

InitIDS ==
    /\ InitBuses(0) /\ InitEngine /\ InitCallers(Pools)
    /\ AuthUnused /\ GwUnused /\ SecUnused

CheckStep(t) ==
    \/ \E m \in pool : CheckCall(t, m)
    \/ CheckLookup(t) \/ CheckInsert(t) \/ CheckRate(t)

NextIDS == \E t \in IdsThreads : CheckStep(t)

SpecIDS == InitIDS /\ [][NextIDS]_vars

\* The statistics workload: two threads check frames and packets of one
\* engine, or a burst on one routing key, and one of them also reads the
\* engine's statistics.
StatsPools == {PoolMixed, PoolRateCan}

IdsStatsReaders == {"g2"}

InitIdsStats ==
    /\ InitBuses(0) /\ InitEngine /\ InitCallers(StatsPools)
    /\ AuthUnused /\ GwUnused /\ SecUnused

NextIdsStats ==
    \/ \E t \in IdsThreads : CheckStep(t)
    \/ \E t \in IdsStatsReaders : IdsGetStats(t)

SpecIdsStats == InitIdsStats /\ [][NextIdsStats]_vars

\* The engine next to the data plane: one thread calls the engine with frames
\* of two CAN ids and packets of one source, early and late ones, while a
\* producer sends on a bus and a consumer receives from it.
PoolPlane ==
    {CANFrame(id, <<>>, ts) : id \in {256, 257}, ts \in {0, WindowMs + 1}}
      \cup {EthernetPacket("gateway", <<>>, 0)}

PlaneCheckers == {"g1"}

PlaneSenders == {"p1"}

PlaneReceivers == {"c2"}

InitPlane ==
    /\ InitBuses(StressMsgs) /\ InitEngine /\ InitCallers({PoolPlane})
    /\ AuthUnused /\ GwUnused /\ SecUnused

NextPlane ==
    \/ \E t \in PlaneCheckers : CheckStep(t)
    \/ \E p \in PlaneSenders : ProducerStep(p)
    \/ \E c \in PlaneReceivers :
          RecvCall(c) \/ RecvGet(c) \/ RecvEmpty(c) \/ RecvAcq(c) \/ RecvInc(c)

SpecPlane == InitPlane /\ [][NextPlane]_vars

(***************************************************************************)
(* The codec's workload: one payload is tagged and stripped again, with or *)
(* without a byte changed in between, or untagged bytes are stripped.      *)
(***************************************************************************)
InitAuth ==
    InitBuses(0) /\ IdsUnused /\ InitCodec("idle") /\ GwUnused /\ SecUnused

NextAuth ==
    \/ \E m \in Payloads : AttachAuth(m)
    \/ \E w \in Inputs : Receive(w)
    \/ \E i \in 1..(MaxPayloadLen + TagLen) : \E b \in Bytes : Tamper(i, b)
    \/ StripAndVerify

SpecAuth == InitAuth /\ [][NextAuth]_vars

(***************************************************************************)
(* The translator's workload: two threads translate the messages of a pool *)
(* and the messages earlier translations returned, and read the statistics.*)
(***************************************************************************)
InitGw ==
    /\ InitBuses(0) /\ IdsUnused /\ AuthUnused /\ InitTranslator(GwPools)
    /\ SecUnused

NextGw ==
    \E t \in GwThreads :
        \/ \E c \in gwpool \cup Returned_Calls : TrCall(t, c)
        \/ TrEnter(t)
        \/ TrWrite(t)
        \/ \E l \in Latencies : TrAppend(t, l)
        \/ TrStats(t)

SpecGw == InitGw /\ [][NextGw]_vars

\* The round-trip workload: frames are translated, and the packets the
\* translations returned are translated back.
InitTrip ==
    /\ InitBuses(0) /\ IdsUnused /\ AuthUnused /\ InitTranslator({GwPoolTrip})
    /\ SecUnused

SpecTrip == InitTrip /\ [][NextGw]_vars

\* The minting workload: three threads call gen_id at the same time.
InitMinters ==
    /\ InitBuses(0) /\ IdsUnused /\ AuthUnused /\ GwUnused /\ SecUnused

NextMint ==
    \E t \in Minters :
        \/ \E prefix \in Prefixes : MintCall(t, prefix)
        \/ MintRead(t)
        \/ MintWrite(t)
        \/ MintReturn(t)

SpecMint == InitMinters /\ [][NextMint]_vars

(***************************************************************************)
(* The pipeline's workload: the main thread's loop, the attacker and the   *)
(* translation of packets.                                                 *)
(***************************************************************************)
InitSecure ==
    /\ InitBuses(0) /\ IdsUnused /\ AuthUnused /\ GwUnused
    /\ InitPipeline("idle")

NextSecure ==
    \/ \E id \in GenCanIds : \E n \in GenDlcs : SecAuth(id, n)
    \/ \E dos \in BOOLEAN : SecCheckCan(dos)
    \/ \E l \in SecLatencies : SecTranslate(l)
    \/ \E dos \in BOOLEAN : SecCheckEth(dos)
    \/ SecAttack(2047, <<70, 76, 79, 79, 68, 33>>)
    \/ \E l \in SecLatencies : SecReverse(64, l)

SpecSecure == InitSecure /\ [][NextSecure]_vars

(***************************************************************************)
(* run_secure from its loop to the end of the loop over attack_frames      *)
(* (scenarios.py 402-484), with the attackers' threads sending to the CAN  *)
(* bus meanwhile.                                                          *)
(***************************************************************************)
\* The frames the attackers have sent: the frames sent to the CAN bus that
\* the main thread did not send.
AttackFrames == messages_sent["can"] - translation_count

\* can_frames in these runs: the dlc of its frames
LifeDlcs == <<1, 2>>

NextLifecycle ==
    \/ \E id \in GenCanIds :
          sdone < Len(LifeDlcs) /\ SecAuth(id, LifeDlcs[sdone + 1])
    \/ \E dos \in BOOLEAN : SecCheckCan(dos)
    \/ \E l \in SecLatencies : SecTranslate(l)
    \/ \E dos \in BOOLEAN : SecCheckEth(dos)
    \/ SecLoopEnd
    \/ \E k \in 0..MaxPipeline : SecRecvBatch(k)
    \/ \E dos \in BOOLEAN : SecCheckDequeued(dos)
    \/ SecFinish
    \/ AttackFrames < MaxAttacks /\ SecAttack(2047, <<70, 76, 79, 79, 68, 33>>)
    \/ \E id \in GenCanIds : \E k \in 1..Len(LifeDlcs) :
          AttackFrames < MaxAttacks /\ SecReplay(id, LifeDlcs[k])

SpecLifecycle == InitSecure /\ [][NextLifecycle]_vars

(***************************************************************************)
(* C1. Bus integrity: once N send calls of concurrent threads have         *)
(* completed and nothing was received, get_stats reports sent = N, and a   *)
(* recv_batch with max_frames >= N that runs alone and does not leave its  *)
(* loop by the deadline returns those N messages, each exactly once.       *)
(***************************************************************************)
Elems(s) == {s[i] : i \in 1..Len(s)}

C1_BusIntegrity ==
    \A c \in Consumers :
        /\ (pc[c] = "idle" /\ lastOp[c] = "get_stats" /\ ~gsCtx[c].busy)
              => stats[c].sent = gsCtx[c].done
        /\ (/\ pc[c] = "idle" /\ lastOp[c] = "recv_batch"
            /\ excl[c] /\ rbExit[c] # "deadline"
            /\ max_frames[c] >= CompletedSends)
              => /\ messages_sent[target] = CompletedSends
                 /\ Len(frames[c]) = CompletedSends
                 /\ Elems(frames[c]) = SentMsgs

\* All K * M sends of the two producers, interleaved, were returned by one
\* recv_batch.
C1_Witness ==
    \E c \in Consumers :
        /\ pc[c] = "idle" /\ lastOp[c] = "recv_batch"
        /\ excl[c] /\ rbExit[c] # "deadline"
        /\ CompletedSends = TotalMsgs
        /\ Len(frames[c]) = TotalMsgs
        /\ frames[c][1][1] # frames[c][2][1]

(***************************************************************************)
(* C2. Concurrency stress: K producers send M messages each while the      *)
(* consumers keep calling recv and recv_batch.  No message is handed to a  *)
(* consumer twice (or to two consumers), and under fair scheduling sent    *)
(* and received both reach K * M.                                          *)
(***************************************************************************)
NoDuplicateDelivery == \A m \in Msgs : delivered[m] <= 1

AllReceived ==
    /\ messages_sent[target] = TotalMsgs
    /\ messages_received[target] = TotalMsgs

C2_ConcurrencyStress == []NoDuplicateDelivery /\ <>[]AllReceived

\* Every message was sent and received, and the two consumers each got one.
C2_Witness ==
    /\ AllReceived
    /\ \A m \in Msgs : delivered[m] = 1
    /\ \A c \in Consumers : pc[c] = "idle" /\ frames[c] # <<>>

(***************************************************************************)
(* C3. A check is atomic: of two overlapping calls (check_can or           *)
(* check_eth) on one engine with the same payload and routing key, never   *)
(* both see the fingerprint as not yet seen; and when the fingerprint was  *)
(* new to both at their calls, exactly one returns replay = false.         *)
(***************************************************************************)
\* t's call has made its lookup of seen_hashes.
PastLookup(t) ==
    \/ ipc[t] \in {"insert", "rate"}
    \/ ipc[t] = "idle" /\ verdict[t].valid

Returned(t) == ipc[t] = "idle" /\ verdict[t].valid

ReplayOf(t) == IF ipc[t] = "idle" THEN verdict[t].replay ELSE local[t].replay

SamePair(m1, m2) == m1.data = m2.data /\ RoutingKey(m1) = RoutingKey(m2)

C3_AtomicCheck ==
    \A t \in IdsThreads : \A u \in concur[t] :
        (PastLookup(t) /\ PastLookup(u) /\ SamePair(arg[t], arg[u]))
          => /\ ReplayOf(t) \/ ReplayOf(u)
             /\ (Returned(t) /\ Returned(u) /\ fresh[t] /\ fresh[u])
                  => ReplayOf(t) # ReplayOf(u)

\* C3 as first stated, without the condition on the fingerprint being new:
\* of two overlapping calls with the same payload and routing key, exactly
\* one returns replay = false.  An earlier call of the same pair makes both
\* return replay = true.
C3_Unconditional ==
    \A t \in IdsThreads : \A u \in concur[t] :
        (Returned(t) /\ Returned(u) /\ SamePair(arg[t], arg[u]))
          => ReplayOf(t) # ReplayOf(u)

\* Two overlapping calls with the same new message have returned: one found
\* it new, the other a replay.
C3_Witness ==
    \E t \in IdsThreads : \E u \in concur[t] :
        /\ Returned(t) /\ Returned(u)
        /\ SamePair(arg[t], arg[u])
        /\ fresh[t] /\ fresh[u]
        /\ ~verdict[t].replay /\ verdict[u].replay

(***************************************************************************)
(* C4. Replay detection: the first check of a (payload, routing key) pair  *)
(* returns replay = false and every later check of the same pair returns   *)
(* replay = true.                                                          *)
(***************************************************************************)
\* The pair of the i-th completed check was checked before.
CheckedBefore(i) == \E j \in 1..(i - 1) : SamePair(log[j].msg, log[i].msg)

C4_ReplayDetection ==
    \A i \in 1..Len(log) : log[i].verdict.replay = CheckedBefore(i)

(***************************************************************************)
(* C5. Rate window: the first rate_threshold + 1 checks of a routing key,  *)
(* with non-decreasing timestamps at most window_ms apart, give dos_rate   *)
(* on the last one and on none before; evenly spaced over more than        *)
(* window_ms, they give it on none.                                        *)
(***************************************************************************)
\* The completed checks of routing key k, in order.
KeyLog(k) ==
    LET OfKey(e) == RoutingKey(e.msg) = k
    IN SelectSeq(log, OfKey)

LoggedKeys == {RoutingKey(log[i].msg) : i \in 1..Len(log)}

Burst == RateThreshold + 1

NonDecreasing(L) ==
    \A i \in 1..(Burst - 1) : L[i].msg.ts_ms <= L[i + 1].msg.ts_ms

EvenlySpaced(L) ==
    \E d \in 1..MaxTs :
        \A i \in 1..(Burst - 1) : L[i + 1].msg.ts_ms - L[i].msg.ts_ms = d

Span(L) == L[Burst].msg.ts_ms - L[1].msg.ts_ms

C5_RateWindow ==
    \A k \in LoggedKeys :
        LET L == KeyLog(k)
        IN Len(L) >= Burst =>
             /\ (NonDecreasing(L) /\ Span(L) <= WindowMs)
                  => /\ L[Burst].verdict.dos_rate
                     /\ \A i \in 1..(Burst - 1) : ~L[i].verdict.dos_rate
             /\ (EvenlySpaced(L) /\ Span(L) > WindowMs)
                  => \A i \in 1..Burst : ~L[i].verdict.dos_rate

\* A burst with rising timestamps inside the window was flagged on its last
\* check.
C5_Witness ==
    \E k \in LoggedKeys :
        LET L == KeyLog(k)
        IN /\ Len(L) >= Burst
           /\ NonDecreasing(L) /\ Span(L) = WindowMs
           /\ L[Burst].verdict.dos_rate

(***************************************************************************)
(* C6. Injection: check_can returns injection = true exactly for the       *)
(* arbitration ids above 0x700, whatever the payload, the timestamp and    *)
(* the engine's replay and rate state.                                     *)
(***************************************************************************)
C6_Injection ==
    \A i \in 1..Len(log) :
        log[i].msg.kind = "can"
          => (log[i].verdict.signal <=> log[i].msg.can_id >= 1793)

\* 0x701 was flagged and 0x700 was not, the latter while its replay signal
\* was up.
C6_Witness ==
    \E i, j \in 1..Len(log) :
        /\ log[i].msg.kind = "can" /\ log[i].msg.can_id = 1793
        /\ log[i].verdict.signal
        /\ log[j].msg.kind = "can" /\ log[j].msg.can_id = 1792
        /\ ~log[j].verdict.signal /\ log[j].verdict.replay

(***************************************************************************)
(* C7. Spoofing: check_eth returns spoofing = true exactly when the source *)
(* is "attacker" or b"SPOOF" occurs somewhere in the payload.              *)
(***************************************************************************)
HasMarker(d) ==
    \E k \in 0..(Len(d) - 5) : SubSeq(d, k + 1, k + 5) = <<83, 80, 79, 79, 70>>

C7_Spoofing ==
    \A i \in 1..Len(log) :
        log[i].msg.kind = "eth"
          => (log[i].verdict.signal
                <=> (log[i].msg.src = "attacker" \/ HasMarker(log[i].msg.data)))

\* The gateway's b"1SPOOF1" was flagged, the gateway's b"SPOO" was not.
C7_Witness ==
    \E i, j \in 1..Len(log) :
        /\ log[i].msg.kind = "eth" /\ log[i].msg.src = "gateway"
        /\ Len(log[i].msg.data) = 7 /\ log[i].verdict.signal
        /\ log[j].msg.kind = "eth" /\ log[j].msg.src = "gateway"
        /\ Len(log[j].msg.data) = 4 /\ ~log[j].verdict.signal

(***************************************************************************)
(* C8. In every verdict, alerts = replay or dos_rate or the third signal   *)
(* (injection, spoofing).                                                  *)
(***************************************************************************)
C8_BlockedIsOr ==
    \A i \in 1..Len(log) :
        LET v == log[i].verdict
        IN v.alerts <=> (v.replay \/ v.dos_rate \/ v.signal)

\* One verdict raised the replay signal alone, another no signal at all.
C8_Witness ==
    \E i, j \in 1..Len(log) :
        /\ log[i].verdict.alerts /\ log[i].verdict.replay
        /\ ~log[i].verdict.dos_rate /\ ~log[i].verdict.signal
        /\ ~log[j].verdict.alerts

(***************************************************************************)
(* C9. The counters: each call adds one to total_checked, one to           *)
(* total_detected_packets exactly when its verdict has alerts (one, even   *)
(* when several signals fire), and one to each category's counter exactly  *)
(* when that category's signal is in the verdict.                          *)
(***************************************************************************)
NumLogged(P(_)) == Cardinality({i \in 1..Len(log) : P(log[i])})

C9_CounterUpdate ==
    IdsLockFree =>
        LET Alerted(e) == e.verdict.alerts
            Replayed(e) == e.verdict.replay
            Dos(e) == e.verdict.dos_rate
            Injected(e) == e.msg.kind = "can" /\ e.verdict.signal
            Spoofed(e) == e.msg.kind = "eth" /\ e.verdict.signal
        IN /\ total_checked = Len(log)
           /\ total_detected_packets = NumLogged(Alerted)
           /\ replay_detected = NumLogged(Replayed)
           /\ dos_detected = NumLogged(Dos)
           /\ injection_detected = NumLogged(Injected)
           /\ spoofing_detected = NumLogged(Spoofed)

\* A verdict with all three signals was counted once, on an engine that had
\* also passed a frame and flagged a packet.
C9_Witness ==
    /\ IdsLockFree
    /\ \E i \in 1..Len(log) :
          /\ log[i].verdict.replay /\ log[i].verdict.dos_rate
          /\ log[i].verdict.signal
    /\ total_detected_packets < replay_detected + dos_detected + injection_detected

(***************************************************************************)
(* C10. Auth round trip: for every payload m, the empty one included,      *)
(* attach_auth(m) is m followed by exactly 8 tag bytes, and                *)
(* strip_and_verify(attach_auth(m)) returns (m, true).                     *)
(***************************************************************************)
C10_AuthRoundTrip ==
    attached =>
        /\ Len(wire) = Len(authArg) + 8
        /\ SubSeq(wire, 1, Len(authArg)) = authArg
        /\ apc = "done" => outcome = [msg |-> authArg, valid |-> TRUE]

\* The empty payload has made the round trip: its wire is the tag alone.
C10_Witness ==
    /\ attached /\ apc = "done"
    /\ outcome.valid
    /\ outcome.msg = authArg
    /\ Len(wire) = 8

(***************************************************************************)
(* C11. Tamper detection: when any single byte of attach_auth(m) has been  *)
(* changed, in the message part or in the 8-byte tag, strip_and_verify     *)
(* returns valid = false.                                                  *)
(***************************************************************************)
C11_TamperDetected ==
    (tampered # 0 /\ apc = "done") => ~outcome.valid

\* The last byte of a non-empty message was changed and the result was
\* rejected.
C11_Witness ==
    /\ apc = "done"
    /\ tampered # 0 /\ tampered = Len(authArg)
    /\ ~outcome.valid
    /\ outcome.msg # authArg

(***************************************************************************)
(* C12. strip_and_verify never raises: an input shorter than 8 bytes comes *)
(* back unchanged with valid = false, every other input comes back without *)
(* its last 8 bytes and with a boolean.                                    *)
(***************************************************************************)
C12_StripTotal ==
    apc = "done" =>
        IF Len(wire) < 8
        THEN outcome = [msg |-> wire, valid |-> FALSE]
        ELSE /\ outcome.msg = SubSeq(wire, 1, Len(wire) - 8)
             /\ outcome.valid \in BOOLEAN

\* Seven bytes came back unchanged and rejected.
C12_Witness ==
    /\ apc = "done"
    /\ Len(wire) = 7
    /\ outcome = [msg |-> wire, valid |-> FALSE]

(***************************************************************************)
(* C13. can_to_eth(frame, dst) returns a packet whose destination is dst   *)
(* when dst is given, else the table entry of the frame's arbitration id,  *)
(* else 192.168.0.99; the packet's payload is the frame's payload, and no  *)
(* frame is rejected.                                                      *)
(***************************************************************************)
\* t's last call was can_to_eth / eth_to_can and has built its message.
BuiltFrom(t, kind) == gcalled[t] # NoMessage /\ gcalled[t].kind = kind

C13_CanToEth ==
    \A t \in GwThreads :
        BuiltFrom(t, "can") =>
            /\ gout[t].kind = "eth"
            /\ gout[t].data = gcalled[t].data
            /\ gout[t].dst =
                  IF gdst[t] # NoDst THEN gdst[t]
                  ELSE IF gcalled[t].can_id \in {256, 257, 512, 768}
                       THEN can_to_eth_map[gcalled[t].can_id]
                       ELSE "192.168.0.99"

(***************************************************************************)
(* C14. message_id stability: a translation returns the input's id when it *)
(* is not empty and mints one only when it is empty; the input message is  *)
(* not changed.  So an id, once set, survives every chain of translations. *)
(***************************************************************************)
C14_IdStable ==
    \A t \in GwThreads :
        gcalled[t] # NoMessage =>
            /\ gcalled[t].msg_id # <<>> => gout[t].msg_id = gcalled[t].msg_id
            /\ gminted[t] <=> gcalled[t].msg_id = <<>>
            /\ gminted[t] => /\ gout[t].msg_id # <<>>
                             /\ gout[t].msg_id[2] <= msg_counter
            /\ gin[t] = gcalled[t]

\* A frame without id was given the id eth1 by can_to_eth, and the packet,
\* translated back, kept it.
C14_Witness ==
    \E t \in GwThreads :
        /\ BuiltFrom(t, "eth") /\ gpc[t] = "idle"
        /\ gcalled[t].src = "gateway"
        /\ gcalled[t].msg_id = <<"eth", 1>>
        /\ gout[t].msg_id = <<"eth", 1>>
        /\ msg_counter = 1

(***************************************************************************)
(* C15. eth_to_can(packet) returns a frame with dlc = min(len(payload), 8) *)
(* and the first min(len(payload), 8) bytes of the payload; its id is the  *)
(* reverse table's entry of packet.src, or 0x200 for an unmapped source.   *)
(***************************************************************************)
C15_EthToCan ==
    \A t \in GwThreads :
        BuiltFrom(t, "eth") =>
            LET n == Len(gcalled[t].data)
                k == IF n > 8 THEN 8 ELSE n
            IN /\ gout[t].kind = "can"
               /\ gout[t].dlc = k
               /\ gout[t].data = SubSeq(gcalled[t].data, 1, k)
               /\ gout[t].can_id =
                     CASE gcalled[t].src = "192.168.0.10" -> 256
                       [] gcalled[t].src = "192.168.0.11" -> 257
                       [] gcalled[t].src = "192.168.0.20" -> 512
                       [] gcalled[t].src = "192.168.0.30" -> 768
                       [] OTHER -> 512

\* A 64-byte payload from an unmapped source became 8 bytes under 0x200.
C15_Witness ==
    \E t \in GwThreads :
        /\ BuiltFrom(t, "eth") /\ gpc[t] = "idle" /\ completed > 0
        /\ Len(gcalled[t].data) = 64
        /\ gcalled[t].src = "10.9.9.9"
        /\ gout[t].dlc = 8 /\ gout[t].data = <<1, 2, 3, 4, 5, 6, 7, 8>>
        /\ gout[t].can_id = 512

(***************************************************************************)
(* C17. Translator statistics: every can_to_eth / eth_to_can call adds one *)
(* to translation_count and one entry to latencies inside the same locked  *)
(* block.  Once the concurrent calls have returned, get_stats reports as   *)
(* many translations as calls completed, and whenever get_stats can look,  *)
(* latencies has translation_count entries.                                *)
(***************************************************************************)
C17_TranslatorStats ==
    /\ gw_lock = NoThread => /\ translation_count = completed
                            /\ Len(latencies) = translation_count
    /\ \A t \in GwThreads :
          gstats[t] # NoGwStats =>
              /\ gstats[t].latency_count = gstats[t].translations
              /\ gstats[t].translations = gstats[t].done

\* Two translations overlapped, all have returned, and get_stats reports them.
C17_Witness ==
    /\ overlapped
    /\ \A t \in GwThreads : gpc[t] = "idle"
    /\ completed = MaxTranslations
    /\ \E t \in GwThreads :
          /\ gstats[t].translations = MaxTranslations
          /\ gstats[t].latency_count = MaxTranslations

(***************************************************************************)
(* C16. CANFrame invariant: every CAN frame in the system -- returned by   *)
(* eth_to_can, queued on the CAN bus, passed to check_can, the frames with *)
(* authenticated payload of the secure pipeline included -- has at most 8  *)
(* bytes of payload and dlc equal to the payload's length.                 *)
(***************************************************************************)
FramesInSystem ==
    submitted \cup produced \cup Elems(q["can"])

C16_FrameInvariant ==
    \A f \in FramesInSystem : Len(f.data) <= 8 /\ f.dlc = Len(f.data)

(***************************************************************************)
(* C18. recv(timeout) either returns the message at the head of the queue, *)
(* removing it and adding exactly one to received, or, when no message     *)
(* came before the timeout, returns None and leaves sent, received and the *)
(* queue as they are.                                                      *)
(***************************************************************************)
C18_RecvStep ==
    \A c \in Consumers :
        \* the timeout: None is returned
        /\ (pc[c] = "recv_get" /\ pc'[c] = "idle")
              => /\ frames'[c] = <<>>
                 /\ q' = q
                 /\ messages_sent' = messages_sent
                 /\ messages_received' = messages_received
        \* the head of the queue is taken
        /\ (pc[c] = "recv_get" /\ pc'[c] = "recv_acq")
              => /\ q[target] # <<>>
                 /\ frames'[c] = <<q[target][1]>>
                 /\ q[target] = frames'[c] \o q'[target]
                 /\ messages_received' = messages_received
        \* the counter, and the message is returned
        /\ (pc[c] = "recv_inc" /\ pc'[c] = "idle")
              => /\ messages_received'[target] = messages_received[target] + 1
                 /\ frames'[c] = frames[c] /\ Len(frames[c]) = 1
                 /\ q' = q
        \* the call changes the counter nowhere else
        /\ (lastOp[c] = "recv" /\ pc[c] = "recv_acq")
              => messages_received' = messages_received

C18_Recv == [][C18_RecvStep]_vars

\* A recv has returned None after an earlier call had emptied the queue.
C18_Witness ==
    \E c \in Consumers :
        /\ pc[c] = "idle" /\ lastOp[c] = "recv" /\ frames[c] = <<>>
        /\ messages_received[target] >= 1
        /\ q[target] = <<>>

(***************************************************************************)
(* C19. recv_batch(max, timeout) terminates, and no later than its         *)
(* deadline plus one polling slice; it returns at most max messages and    *)
(* raises received by exactly the number it returns; it returns before the *)
(* deadline only when it holds max messages, or when a get timed out on an *)
(* empty queue while at least one message was collected; having collected  *)
(* nothing (max > 0), it returns at the deadline or later.                 *)
(***************************************************************************)
InBatch(c) == pc[c] \in {"rb_loop", "rb_get", "rb_acq", "rb_inc"}

C19_ReturnStep(c) ==
    (InBatch(c) /\ pc'[c] = "idle") =>
        /\ clock' <= deadline[c] + PollSlice
        /\ Len(frames'[c]) <= max_frames[c]
        /\ messages_received'[target] - rbBase[c] = Len(frames'[c])
        /\ clock' < deadline[c] =>
               \/ Len(frames'[c]) = max_frames[c]
               \/ /\ frames'[c] # <<>>
                  /\ pc[c] = "rb_get" /\ q[target] = <<>> /\ clock >= wait_end[c]
        /\ (frames'[c] = <<>> /\ max_frames[c] > 0) => clock' >= deadline[c]

C19_RecvBatch ==
    /\ [][\A c \in SingleConsumer : C19_ReturnStep(c)]_vars
    /\ [](\A c \in SingleConsumer : InBatch(c) => clock <= deadline[c] + PollSlice)
    /\ \A c \in SingleConsumer : InBatch(c) ~> (pc[c] = "idle")

\* a partial batch was returned before the deadline
C19_Witness ==
    \E c \in SingleConsumer :
        /\ pc[c] = "idle" /\ lastOp[c] = "recv_batch" /\ rbExit[c] = "empty"
        /\ frames[c] # <<>> /\ Len(frames[c]) < max_frames[c]
        /\ clock < deadline[c]

(***************************************************************************)
(* C20. send_batch(msgs) and send on each element of msgs, in list order.  *)
(***************************************************************************)
\* The messages a producer's call has counted in sent and not yet put.
Pending(p) ==
    IF pc[p] = "sb_put" THEN sbLeft[p]
    ELSE IF pc[p] = "send_put" THEN 1 ELSE 0

Enqueued == SumOver(nsent, Producers)

PendingAll == SumOver([p \in Producers |-> Pending(p)], Producers)

\* The messages of one producer are in the queue in the order of its list.
InListOrder(s) ==
    \A i, j \in 1..Len(s) :
        (i < j /\ s[i][1] = s[j][1]) => s[i][2] < s[j][2]

\* A producer inside a call of send or send_batch.
InSend(p) == pc[p] # "idle"

\* A step of a send_batch call whose list is empty.
EmptyBatchStep(p) ==
    /\ pc[p] \in {"sb_acq", "sb_inc", "sb_put"}
    /\ sbSize[p] = 0
    /\ pc'[p] # pc[p]

\* What a get_stats result shows sent to be ahead of the messages that were
\* enqueued (received or still queued).
Ahead(st) == st.sent - st.received - st.queued

\* C20 as amended: sent is always the number of messages enqueued plus the
\* messages that calls in progress have counted and not yet put (the whole
\* rest of the list for send_batch, one for send), so that a completed
\* send_batch has raised sent by len(msgs); the messages of a list are in the
\* queue in list order; and an empty batch changes neither the counters nor
\* the queue.
C20_BatchCounts ==
    /\ [](messages_sent[target] = Enqueued + PendingAll)
    /\ [](InListOrder(q[target]))
    /\ [][\A p \in Producers :
             EmptyBatchStep(p) => /\ q' = q
                                  /\ messages_sent' = messages_sent
                                  /\ messages_received' = messages_received]_vars

\* C20 as stated: in addition, every state a concurrent get_stats or recv can
\* observe during send_batch is a state of the same threads calling send on
\* each element, where a thread in a call has counted at most one message
\* that it has not yet put.
C20_SendBatch ==
    /\ messages_sent[target] = Enqueued + PendingAll
    /\ InListOrder(q[target])
    /\ messages_sent[target] - Enqueued <= Cardinality({p \in Producers : InSend(p)})

\* A batch of two or more was sent, and a get_stats that ran meanwhile saw
\* sent two ahead of the messages enqueued.
C20_Witness ==
    /\ \E p \in BatchSenders : pc[p] = "idle" /\ sbSize[p] >= 2 /\ nsent[p] >= 2
    /\ \E c \in SingleConsumer :
          /\ pc[c] = "idle" /\ lastOp[c] = "get_stats"
          /\ Ahead(stats[c]) >= 2

(***************************************************************************)
(* C21. get_stats() returns a consistent snapshot: the triple it returns   *)
(* is the sent counter, the received counter and the queue depth of one    *)
(* instant (the instant the depth is read), while other threads run send,  *)
(* send_batch, recv and recv_batch.                                        *)
(***************************************************************************)
Snapshot ==
    [sent |-> messages_sent[target],
     received |-> messages_received[target],
     queued |-> Len(q[target])]

C21_ReturnStep ==
    \A o \in Consumers :
        (pc[o] = "gs_qsize" /\ pc'[o] = "idle") => stats'[o] = Snapshot

C21_Snapshot == [][C21_ReturnStep]_vars

\* get_stats has returned a triple taken while a send or a receive of another
\* thread was between its counter and its queue operation.
C21_Witness ==
    \E o \in StatsReaders :
        /\ pc[o] = "idle" /\ lastOp[o] = "get_stats"
        /\ stats[o].sent >= 1
        /\ Ahead(stats[o]) >= 1

(***************************************************************************)
(* C30. Bus accounting: in every reachable state, the states in the middle *)
(* of a send, send_batch, recv or recv_batch included, received + queue    *)
(* depth <= sent; and whenever no send or receive is in progress, sent =   *)
(* received + queue depth.                                                 *)
(***************************************************************************)
\* A thread inside send, send_batch, recv or recv_batch.
InBusOp(t) == pc[t] \notin {"idle", "gs_acq", "gs_qsize"}

C30_Accounting ==
    /\ messages_received[target] + Len(q[target]) <= messages_sent[target]
    /\ (\A t \in BusThreads : ~InBusOp(t))
          => messages_sent[target] = messages_received[target] + Len(q[target])

\* A message was counted as sent and taken from the queue, and the receiver
\* has not counted it yet.
C30_Witness ==
    /\ \E c \in Receivers : pc[c] \in {"recv_acq", "recv_inc", "rb_acq", "rb_inc"}
    /\ messages_sent[target] >= 1
    /\ messages_received[target] + Len(q[target]) < messages_sent[target]

(***************************************************************************)
(* C22. FIFO order, with a single consumer: when send(a) had completed     *)
(* before send(b) was called (as for two messages of one producer thread), *)
(* a is taken from the queue, and so returned by recv or recv_batch,       *)
(* before b; and the list recv_batch returns is in the order of its gets.  *)
(***************************************************************************)
\* The consumer c takes a message from the queue in this step.
Dequeues(c) ==
    /\ pc[c] \in {"recv_get", "rb_get"}
    /\ pc'[c] \in {"recv_acq", "rb_acq"}

C22_DequeueStep ==
    \A c \in SingleConsumer :
        Dequeues(c) =>
            LET b == Head(q[target])
            IN /\ b \in DOMAIN before
               \* every earlier message of b's producer completed before b
               /\ \A j \in 1..(b[2] - 1) : <<b[1], j>> \in before[b]
               \* and everything that completed before b is out of the queue
               /\ \A a \in before[b] : a \notin Elems(q[target])
               /\ q[target] = <<b>> \o q'[target]
               /\ pc[c] = "rb_get" => frames'[c] = Append(frames[c], b)
               /\ pc[c] = "recv_get" => frames'[c] = <<b>>

C22_Fifo == [][C22_DequeueStep]_vars

\* recv_batch has returned two messages of different producers, the send of
\* the first completed before the send of the second was called.
C22_Witness ==
    \E c \in SingleConsumer :
        /\ pc[c] = "idle" /\ lastOp[c] = "recv_batch" /\ Len(frames[c]) >= 2
        /\ frames[c][1][1] # frames[c][2][1]
        /\ frames[c][2] \in DOMAIN before
        /\ frames[c][1] \in before[frames[c][2]]

(***************************************************************************)
(* C23. Rate-window eviction: after every check the window of a routing    *)
(* key holds no timestamp more than window_ms older than the newest one in *)
(* it, and holds every checked timestamp of the key that is within         *)
(* window_ms of the newest one.                                            *)
(***************************************************************************)
Newest(dq) == CHOOSE x \in Elems(dq) : \A y \in Elems(dq) : y <= x

Occurrences(dq, ts) == Cardinality({i \in 1..Len(dq) : dq[i] = ts})

Checked(L, ts) == Cardinality({i \in 1..Len(L) : L[i].msg.ts_ms = ts})

WindowExact(k) ==
    LET dq == Window(k)
        L == KeyLog(k)
    IN /\ dq # <<>>
       /\ \A i \in 1..Len(dq) : Newest(dq) - dq[i] <= WindowMs
       /\ \A i \in 1..Len(L) :
             Newest(dq) - L[i].msg.ts_ms <= WindowMs
               => Occurrences(dq, L[i].msg.ts_ms) = Checked(L, L[i].msg.ts_ms)

\* The timestamps of the key arrived in non-decreasing order.
ArrivedInOrder(k) ==
    LET L == KeyLog(k)
    IN \A i, j \in 1..Len(L) : i < j => L[i].msg.ts_ms <= L[j].msg.ts_ms

\* C23 as amended: for the keys whose timestamps arrive in non-decreasing
\* order.
C23_MonotoneWindow ==
    \A k \in LoggedKeys : ArrivedInOrder(k) => WindowExact(k)

\* C23 as stated: for any order of arrival.
C23_Eviction == \A k \in LoggedKeys : WindowExact(k)

\* Three timestamps arrived in order, and the oldest was evicted while the
\* one exactly window_ms old was kept.
C23_Witness ==
    \E k \in LoggedKeys :
        /\ ArrivedInOrder(k)
        /\ Len(KeyLog(k)) >= 3
        /\ Len(Window(k)) = 2
        /\ Newest(Window(k)) - Window(k)[1] = WindowMs

(***************************************************************************)
(* C24. One terminal state: in the secure pipeline every message id has at *)
(* most one of the outcomes Forwarded and Blocked; a message that was      *)
(* checked and forwarded to the egress bus is not later dequeued, checked  *)
(* again and recorded as blocked.                                          *)
(***************************************************************************)
C24_OneOutcome ==
    \A id \in DOMAIN fate : Cardinality(fate[id]) <= 1

(***************************************************************************)
(* C25. Flagged messages are not forwarded: a step that puts a packet on   *)
(* the egress bus is no step in which, or after which, a check of the      *)
(* packet's message returned alerts = True.                                *)
(***************************************************************************)
\* The packets this step puts on the egress bus.
Forwards ==
    IF Len(q'["eth"]) > Len(q["eth"])
    THEN {q'["eth"][i] : i \in (Len(q["eth"]) + 1)..Len(q'["eth"])}
    ELSE {}

C25_ForwardStep == \A m \in Forwards : m.msg_id \notin flagged'

C25_FlaggedNotForwarded == [][C25_ForwardStep]_vars

\* check_eth flagged a packet, which was not forwarded, and another message
\* was forwarded.
C25_Witness ==
    /\ spc = "idle"
    /\ spkt # NoMessage
    /\ spkt.msg_id \in flagged
    /\ FateOf(spkt.msg_id) = {"blocked"}
    /\ q["eth"] # <<>>

(***************************************************************************)
(* C26. Unverified messages are not forwarded: a packet is on the egress   *)
(* bus only after strip_and_verify has returned valid = True.              *)
(***************************************************************************)
C26_VerifiedFirst == q["eth"] # <<>> => outcome.valid

(***************************************************************************)
(* C27. Clean messages are forwarded: when the pipeline has finished,      *)
(* every message that was dequeued from the ingress bus and got a clean    *)
(* verdict was sent to the egress bus, and no dequeued message is left     *)
(* with neither outcome.                                                   *)
(***************************************************************************)
C27_CleanForwarded ==
    spc = "done" =>
        \A id \in taken :
            /\ FateOf(id) # {}
            /\ id \notin flagged => "forwarded" \in FateOf(id)

(***************************************************************************)
(* C29. No false replay: a check returns replay = True only if an earlier  *)
(* check on the same engine had exactly the same payload and the same      *)
(* routing key of the same protocol; messages that differ in payload or    *)
(* routing key never make each other a replay.                             *)
(***************************************************************************)
C29_NoFalseReplay ==
    \A i \in 1..Len(log) : log[i].verdict.replay => CheckedBefore(i)

(***************************************************************************)
(* C28. The engine decides and does not touch the data plane: a step of a  *)
(* check_can or check_eth call leaves both bus queues, both buses'         *)
(* counters, the fields of the checked message and the rate window of      *)
(* every routing key other than the message's unchanged.                   *)
(***************************************************************************)
\* t's call takes a step.
CheckSteps(t) == ipc'[t] # ipc[t]

\* t is inside a call in both states of the step.
InCheck(t) == ipc[t] # "idle"

OtherWindowsKept(key) ==
    \A k \in DOMAIN timestamps :
        k # key => k \in DOMAIN timestamps' /\ timestamps'[k] = timestamps[k]

C28_CheckStep ==
    \A t \in IdsThreads :
        CheckSteps(t) =>
            /\ q' = q
            /\ messages_sent' = messages_sent
            /\ messages_received' = messages_received
            /\ InCheck(t) => arg'[t] = arg[t]
            /\ (InCheck(t) /\ ipc'[t] = "idle")
                  => log'[Len(log')].msg = arg[t]
            /\ OtherWindowsKept(RoutingKey(arg'[t]))
            /\ \A k \in DOMAIN timestamps' :
                  k \notin DOMAIN timestamps => k = RoutingKey(arg'[t])

C28_PureDecision == [][C28_CheckStep]_vars

\* Checks of two routing keys have returned, the later one past the window
\* of the earlier one, which still holds its timestamp, while a message is
\* queued on a bus.
C28_Witness ==
    /\ Len(log) >= 2
    /\ \E i, j \in 1..Len(log) :
          /\ i < j
          /\ RoutingKey(log[i].msg) # RoutingKey(log[j].msg)
          /\ log[j].msg.ts_ms - log[i].msg.ts_ms > WindowMs
          /\ Window(RoutingKey(log[i].msg)) # <<>>
          /\ Window(RoutingKey(log[i].msg))[1] = log[i].msg.ts_ms
    /\ q[target] # <<>>
    /\ messages_sent[target] > 0

(***************************************************************************)
(* C31. The engine's counters: in every state get_stats observes, the      *)
(* alerted messages are at most the checked ones, each of the four         *)
(* category counters is at most the alerted messages, the alerted messages *)
(* are at most the sum of the four, and the fingerprint set holds at most  *)
(* total_checked entries.                                                  *)
(***************************************************************************)
CountersConsistent(s) ==
    /\ s.total_detected_packets <= s.total_checked
    /\ s.replay_detected <= s.total_detected_packets
    /\ s.dos_detected <= s.total_detected_packets
    /\ s.injection_detected <= s.total_detected_packets
    /\ s.spoofing_detected <= s.total_detected_packets
    /\ s.total_detected_packets <=
          s.replay_detected + s.dos_detected + s.injection_detected
            + s.spoofing_detected

C31_Counters ==
    /\ CountersConsistent(istats)
    /\ IdsLockFree => Cardinality(seen_hashes) <= total_checked

\* get_stats returned after checks that alerted and checks that did not,
\* one of them alerting in two categories.
C31_Witness ==
    /\ istats.valid
    /\ istats.total_detected_packets >= 1
    /\ istats.total_detected_packets < istats.total_checked
    /\ istats.total_detected_packets <
          istats.replay_detected + istats.dos_detected
            + istats.injection_detected + istats.spoofing_detected
    /\ Cardinality(seen_hashes) < total_checked

(***************************************************************************)
(* C32. Round trip with the default tables: for a frame f with at most 8   *)
(* payload bytes and a non-empty message id, eth_to_can(can_to_eth(f)) has *)
(* f's payload and message id and a dlc equal to the payload's length; its *)
(* arbitration id is the fallback 0x200 whatever f's was, because the      *)
(* packet's source is "gateway", which the reverse table does not contain. *)
(***************************************************************************)
\* t's last call was eth_to_can on the packet u's last call, can_to_eth,
\* returned.
TranslatedBack(u, t) ==
    /\ BuiltFrom(u, "can")
    /\ BuiltFrom(t, "eth")
    /\ gcalled[t] = gout[u]

C32_RoundTrip ==
    \A u, t \in GwThreads :
        (/\ TranslatedBack(u, t)
         /\ Len(gcalled[u].data) <= 8
         /\ gcalled[u].msg_id # <<>>)
          => /\ gout[t].kind = "can"
             /\ gout[t].data = gcalled[u].data
             /\ gout[t].msg_id = gcalled[u].msg_id
             /\ gout[t].dlc = Len(gcalled[u].data)
             /\ gout[t].can_id = 512
             /\ gout[u].src = "gateway"
             /\ "gateway" \notin DOMAIN eth_to_can_map

\* A frame of id 0x100 with 8 payload bytes and the id m1 came back with the
\* same payload and id under 0x200.
C32_Witness ==
    \E u, t \in GwThreads :
        /\ TranslatedBack(u, t)
        /\ gpc[t] = "idle" /\ gpc[u] = "idle"
        /\ gcalled[u].can_id = 256
        /\ gcalled[u].msg_id = <<"m", 1>>
        /\ Len(gcalled[u].data) = 8
        /\ gout[t].data = gcalled[u].data
        /\ gout[t].can_id = 512

(***************************************************************************)
(* C33. Id minting is race free: with threads calling gen_id at the same   *)
(* time, the shared counter grows by exactly one per call, no two calls    *)
(* obtain the same counter value, and so no two calls with the same prefix *)
(* return the same id.                                                     *)
(***************************************************************************)
\* The calls that have written the counter: the returned ones and the one
\* about to return.
CountedCalls ==
    Len(minted) + Cardinality({t \in Minters : mpc[t] = "return"})

C33_RaceFreeIds ==
    /\ msg_counter = CountedCalls
    /\ \A i, j \in 1..Len(minted) :
          i # j => /\ minted[i][2] # minted[j][2]
                   /\ minted[i][1] = minted[j][1] => minted[i] # minted[j]

\* Two calls with the same prefix have returned the counter values 1 and 2,
\* and a third call holds the lock.
C33_Witness ==
    /\ Len(minted) >= 2
    /\ minted[1][1] = minted[2][1]
    /\ minted[1][2] = 1 /\ minted[2][2] = 2
    /\ \E t \in Minters : mpc[t] = "write" /\ ctr_lock = t

====
